---- MODULE Spec2Model ----
(***************************************************************************)
(* A model of code/build_abide_both.py: the builder that merges the two    *)
(* ABIDE source datasets into inputs/abide-both by reusing git-annex keys, *)
(* regenerates BIDS sidecars by inheritance, writes the participants       *)
(* table, and optionally materializes small metadata files into Git.       *)
(*                                                                         *)
(* Strings the code computes with (identifiers, entity values) are         *)
(* sequences of one-character strings, so that formatting and matching are *)
(* computed and not assumed.  Durations are integers in units of 1e-7 s.   *)
(***************************************************************************)
EXTENDS Integers, Sequences, FiniteSets, TLC

\* ---------------------------------------------------------------- bounds
\* Largest site index the mapper is applied to (two decimal digits occur).
MaxSiteIndex == 11
\* Longest original subject id the mapper is applied to.
MaxIdLen == 2
\* The batch size of the materializer (400 in the source) and the number of
\* metadata files of the tree it is run on.
ChunkN == 2
MaxCand == 3

\* --------------------------------------------------------------- strings
Range(seq) == { seq[i] : i \in 1..Len(seq) }

Chr(s) == <<s>>
Sub == <<"s", "u", "b", "-">>

DigitChar(d) ==
    CASE d = 0 -> "0" [] d = 1 -> "1" [] d = 2 -> "2" [] d = 3 -> "3"
      [] d = 4 -> "4" [] d = 5 -> "5" [] d = 6 -> "6" [] d = 7 -> "7"
      [] d = 8 -> "8" [] OTHER -> "9"

\* str(int) of a non-negative integer, as the f-string of line 539 renders it.
RECURSIVE IntStr(_)
IntStr(n) ==
    IF n < 10 THEN <<DigitChar(n)>>
    ELSE IntStr(n \div 10) \o <<DigitChar(n % 10)>>

\* ---------------------------------------------------------- entity mapper
\* The separator-free variant of the identifier (a plausible slip).
new_id_nosep(version_tag, site_idx, orig_id) ==
    version_tag \o Chr("s") \o IntStr(site_idx) \o orig_id

\* new_id = f"{version_tag}s{site_index[site]}x{orig_id}"
new_id(version_tag, site_idx, orig_id) ==
    version_tag \o Chr("s") \o IntStr(site_idx) \o Chr("x") \o orig_id

\* participant_id = f"sub-{new_id}"
participant_id(version_tag, site_idx, orig_id) ==
    Sub \o new_id(version_tag, site_idx, orig_id)

V1 == <<"v", "1">>
V2 == <<"v", "2">>

\* version_tag passed by main() for each dataset.
version_tag(ds) == IF ds = "abide1" THEN V1 ELSE V2

\* ------------------------------------------------------- JSON metadata
\* A JSON value: a number (v, in 1e-7 s when it is a duration) or a string.
Num(n) == [num |-> TRUE, v |-> n, s |-> <<>>]
Txt(t) == [num |-> FALSE, v |-> 0, s |-> t]

\* The empty JSON object {} (a mapping from field names to values).
NoMeta == [k \in {} |-> Num(0)]

\* m.update(n): the fields of n override those of m.
Update(m, n) ==
    [k \in DOMAIN m \cup DOMAIN n |-> IF k \in DOMAIN n THEN n[k] ELSE m[k]]

\* Python truthiness of d.get(k): absent (None), 0 and "" are falsy.
Truthy(m, k) ==
    /\ k \in DOMAIN m
    /\ IF m[k].num THEN m[k].v # 0 ELSE m[k].s # <<>>

\* ------------------------------------------------------- source datasets
Rest == <<"r", "e", "s", "t">>
AcqA == <<"a">>
Orig1 == <<"5", "1">>
Orig2 == <<"2", "9">>
Orig3 == <<"7">>

Part(e, v) == [ent |-> e, val |-> v]

\* A relative path: directories, the "_"-separated entity parts of the file
\* name, then the suffix and the extension ("<parts>_<suffix><ext>").
Rel(segs, parts, suffix, ext) ==
    [segs |-> segs, parts |-> parts, suffix |-> suffix, ext |-> ext]

\* The datasets main() can build, in the order it builds them.
DatasetNames == <<"abide1", "abide2">>

\* An entry of a dataset directory that is a site directory.
SiteDir(name) == [name |-> name, is_dir |-> TRUE, dot |-> FALSE]

\* dataset_dir.iterdir(), sorted: name, whether a directory, whether the
\* name starts with ".".  abide2 has eleven site directories, so that its
\* site indexes run from 0 to 10.
DatasetDirEntries(ds) ==
    IF ds = "abide1"
    THEN << [name |-> ".datalad", is_dir |-> TRUE, dot |-> TRUE],
            SiteDir("SiteA"),
            [name |-> "participants.tsv", is_dir |-> FALSE, dot |-> FALSE] >>
    ELSE << [name |-> ".git", is_dir |-> TRUE, dot |-> TRUE],
            SiteDir("Site0"), SiteDir("Site1"), SiteDir("SiteB"),
            SiteDir("SiteC3"), SiteDir("SiteC4"), SiteDir("SiteC5"), SiteDir("SiteC6"),
            SiteDir("SiteC7"), SiteDir("SiteC8"), SiteDir("SiteC9"), SiteDir("SiteD") >>

\* site_dir.iterdir(), sorted: subject directories and site-level files.
\* SiteA, SiteB and SiteD hold one subject each, the other sites none.
SiteDirEntries(site) ==
    CASE site = "SiteA" -> << [is_dir |-> TRUE, sub |-> TRUE, orig |-> Orig1],
                              [is_dir |-> FALSE, sub |-> FALSE, orig |-> <<>>] >>
      [] site = "SiteB" -> << [is_dir |-> TRUE, sub |-> TRUE, orig |-> Orig2],
                              [is_dir |-> FALSE, sub |-> FALSE, orig |-> <<>>] >>
      [] site = "SiteD" -> << [is_dir |-> TRUE, sub |-> TRUE, orig |-> Orig3] >>
      [] OTHER -> << [is_dir |-> FALSE, sub |-> FALSE, orig |-> <<>>] >>

\* os.walk(subject_dir) with sorted directories and files, hidden names
\* already dropped: the files of a subject in enumeration order (the
\* subject directory of SiteD is empty).
SubjectFiles(site, orig) ==
    CASE site = "SiteA" ->
           << Rel(<<"func">>, <<Part("sub", orig), Part("task", Rest), Part("acq", AcqA)>>,
                  "bold", ".json"),
              Rel(<<"func">>, <<Part("sub", orig), Part("task", Rest), Part("acq", AcqA)>>,
                  "bold", ".nii.gz") >>
      [] site = "SiteD" -> <<>>
      [] OTHER -> << Rel(<<"anat">>, <<Part("sub", orig)>>, "T1w", ".nii.gz") >>

\* list_sites: directories whose name does not start with ".".
list_sites(ds) ==
    LET keep == SelectSeq(DatasetDirEntries(ds), LAMBDA e: e.is_dir /\ ~e.dot)
    IN  [i \in 1..Len(keep) |-> keep[i].name]

\* list_subjects: directories named sub-*, by their original id.
list_subjects(site) ==
    LET keep == SelectSeq(SiteDirEntries(site), LAMBDA e: e.is_dir /\ e.sub)
    IN  [i \in 1..Len(keep) |-> keep[i].orig]

\* site_index = {site: idx for idx, site in enumerate(sites)} (zero-based).
SiteIndexes ==
    [ds \in Range(DatasetNames) |->
        [site \in Range(list_sites(ds)) |->
            (CHOOSE i \in 1..Len(list_sites(ds)) : list_sites(ds)[i] = site) - 1]]

site_index(ds, site) == SiteIndexes[ds][site]

\* The subjects of a dataset in the order build_abide visits them.
RECURSIVE SubjectsFrom(_, _)
SubjectsFrom(ds, i) ==
    IF i > Len(list_sites(ds)) THEN <<>>
    ELSE LET site == list_sites(ds)[i]
             subs == list_subjects(site)
         IN  [j \in 1..Len(subs) |-> [site |-> site, orig |-> subs[j]]]
             \o SubjectsFrom(ds, i + 1)

AllSubjects == [ds \in Range(DatasetNames) |-> SubjectsFrom(ds, 1)]

Subjects(ds) == AllSubjects[ds]

\* Site-level templates of the source datasets: name -> JSON object.  A
\* template name is its (task, acq, suffix); absent names are not tracked.
TName(task, acq, suffix) == [task |-> task, acq |-> acq, suffix |-> suffix]

\* A duration of n seconds, in units of 1e-7 s.
Sec(n) == n * 10000000

SiteTemplates(site) ==
    IF site = "SiteA"
    THEN { [name |-> TName(Rest, <<>>, "bold"),
            meta |-> [k \in {"a", "b", "RepetitionTime"} |->
                        CASE k = "a" -> Num(1) [] k = "b" -> Num(2)
                          [] OTHER -> Num(Sec(2))]],
           [name |-> TName(Rest, AcqA, "bold"),
            meta |-> [k \in {"b", "c"} |-> IF k = "b" THEN Num(3) ELSE Num(4)]] }
    ELSE { [name |-> TName(<<>>, <<>>, "T1w"),
            meta |-> [k \in {"a"} |-> Num(1)]] }

TemplateTracked(site, tname) == \E t \in SiteTemplates(site) : t.name = tname

TemplateContent(site, tname) ==
    (CHOOSE t \in SiteTemplates(site) : t.name = tname).meta

\* Content of the per-file source sidecars (JSON objects).
SrcJsonContent(site, rel) ==
    [k \in {"c", "d"} |-> IF k = "c" THEN Num(5) ELSE Num(6)]

\* Whether a path is present in a source site's tree (path_looks_tracked).
SrcTracked(site, rel) ==
    \E j \in 1..Len(list_subjects(site)) :
        \E i \in 1..Len(SubjectFiles(site, list_subjects(site)[j])) :
            SubjectFiles(site, list_subjects(site)[j])[i] = rel

\* What the source store knows of a file: its key and, per remote, its URLs
\* (the bold image is known to two remotes that share one URL).
SrcKey(site, rel) ==
    IF rel.ext = ".json" THEN "KEY-json"
    ELSE IF rel.suffix = "bold" THEN "KEY-bold" ELSE "KEY-t1w"

SrcWhereisUrls(site, rel) ==
    IF rel.ext = ".json" THEN <<>>
    ELSE IF rel.suffix = "bold" THEN <<"url1", "url2", "url1">>
    ELSE <<"url3">>

\* ------------------------------------------------------ file name tests
\* parse_bids_entity(fname, entity): the value of the first "_"-part that
\* starts with "<entity>-" and is longer than that prefix; <<>> is None.
parse_bids_entity(rel, entity) ==
    LET hits == SelectSeq(rel.parts, LAMBDA p: p.ent = entity /\ Len(p.val) > 0)
    IN  IF hits = <<>> THEN <<>> ELSE hits[1].val

parse_task_name(rel) == parse_bids_entity(rel, "task")

is_bold_nifti(rel) == rel.suffix = "bold" /\ rel.ext \in {".nii.gz", ".nii"}
is_bold_json(rel) == rel.suffix = "bold" /\ rel.ext = ".json"
is_t1w_nifti(rel) == rel.suffix = "T1w" /\ rel.ext \in {".nii.gz", ".nii"}
is_t1w_json(rel) == rel.suffix = "T1w" /\ rel.ext = ".json"

\* sidecar_json_path: the same name with the image extension replaced.
sidecar_json_path(path) == [path EXCEPT !.ext = ".json"]

\* ------------------------------------------------------------ path mapper
IsPrefix(p, s) == Len(p) <= Len(s) /\ SubSeq(s, 1, Len(p)) = p

\* str.replace("sub-<orig>", "sub-<new>") on the file name parts: every
\* part that begins with sub-<orig> begins with sub-<new> afterwards.
ReplaceSub(parts, orig_id, new) ==
    [i \in 1..Len(parts) |->
        IF parts[i].ent = "sub" /\ IsPrefix(orig_id, parts[i].val)
        THEN Part("sub", new \o SubSeq(parts[i].val, Len(orig_id) + 1, Len(parts[i].val)))
        ELSE parts[i]]

\* map_abide1_relpath without the _ses-1 part given to the file name.
map_abide1_relpath_dironly(rel, orig_id, new) ==
    [rel EXCEPT !.segs = <<"ses-1">> \o rel.segs,
                !.parts = ReplaceSub(rel.parts, orig_id, new)]

\* map_abide1_relpath: substitute the id, prepend ses-1/, and give the file
\* name a _ses-1 part right after sub-<new> when it has no _ses- part.
map_abide1_relpath(rel, orig_id, new) ==
    LET parts == ReplaceSub(rel.parts, orig_id, new)
        starts == Len(parts) > 0 /\ parts[1].ent = "sub" /\ IsPrefix(new, parts[1].val)
        has_ses == \E i \in 2..Len(parts) : parts[i].ent = "ses"
        rest == SubSeq(parts[1].val, Len(new) + 1, Len(parts[1].val))
    IN  [rel EXCEPT
           !.segs = <<"ses-1">> \o rel.segs,
           !.parts = IF starts /\ ~has_ses
                     THEN <<Part("sub", new), Part("ses", <<"1">> \o rest)>> \o Tail(parts)
                     ELSE parts]

\* map_abide2_relpath: the id substitution alone.
map_abide2_relpath(rel, orig_id, new) ==
    [rel EXCEPT !.parts = ReplaceSub(rel.parts, orig_id, new)]

\* dest_repo_rel = Path(participant_id) / dest_rel (lines 552-557).
dest_repo_rel(ds, site, orig_id, rel) ==
    LET new == new_id(version_tag(ds), site_index(ds, site), orig_id)
        dest_rel == IF ds = "abide1" THEN map_abide1_relpath(rel, orig_id, new)
                    ELSE map_abide2_relpath(rel, orig_id, new)
    IN  [top |-> participant_id(version_tag(ds), site_index(ds, site), orig_id),
         segs |-> dest_rel.segs, parts |-> dest_rel.parts,
         suffix |-> dest_rel.suffix, ext |-> dest_rel.ext]

\* Every source file of the two datasets, with where it lives.
SrcFiles ==
    UNION { UNION { { [ds |-> ds, site |-> Subjects(ds)[j].site,
                       orig |-> Subjects(ds)[j].orig,
                       rel |-> SubjectFiles(Subjects(ds)[j].site, Subjects(ds)[j].orig)[i]] :
                      i \in 1..Len(SubjectFiles(Subjects(ds)[j].site, Subjects(ds)[j].orig)) } :
                    j \in 1..Len(Subjects(ds)) } :
            ds \in {"abide1", "abide2"} }

\* The destination of every source file.
DestPathOf == [f \in SrcFiles |-> dest_repo_rel(f.ds, f.site, f.orig, f.rel)]

DestOf(f) == DestPathOf[f]

\* The paths of the destination tree the build can touch.
DestPaths == { DestOf(f) : f \in SrcFiles } \cup { sidecar_json_path(DestOf(f)) : f \in SrcFiles }

\* --------------------------------------------------------- source store
RECURSIVE Uniq(_)
\* "Stable order, no duplicates" (lines 211-218).
Uniq(urls) ==
    IF urls = <<>> THEN <<>>
    ELSE LET front == Uniq(SubSeq(urls, 1, Len(urls) - 1))
             last == urls[Len(urls)]
         IN  IF \E i \in 1..Len(front) : front[i] = last
             THEN front ELSE Append(front, last)

\* What `git annex whereis --json` can answer for a source file: its key and
\* URLs, or a record without a usable key.
WhereisReplies(f) ==
    { [key |-> SrcKey(f.site, f.rel), urls |-> SrcWhereisUrls(f.site, f.rel)],
      [key |-> "", urls |-> <<>>] }

\* annex_whereis_key_urls: (key, urls), or a RuntimeError when no key.
annex_whereis_key_urls(reply) ==
    [ok |-> reply.key # "", key |-> reply.key, urls |-> Uniq(reply.urls)]

\* ----------------------------------------------------------- image header
\* struct.unpack("<i") and (">i") of four bytes: a signed 32-bit integer.
SignedByte(b) == IF b >= 128 THEN b - 256 ELSE b
UnpackLE(b) == SignedByte(b[4]) * 16777216 + b[3] * 65536 + b[2] * 256 + b[1]
UnpackBE(b) == SignedByte(b[1]) * 16777216 + b[2] * 65536 + b[3] * 256 + b[4]

Reverse(b) == [i \in 1..Len(b) |-> b[Len(b) + 1 - i]]

\* The float32 values of the model, by their bits (most significant byte
\* first), in tenths of a time unit: 3.0, 200.0, 0.3, 0.0, -1.0 and NaN.
\* Every other bit pattern stands for one more value, 0.7.
NaNBits == <<127, 192, 0, 0>>
FloatBits ==
    { <<64, 64, 0, 0>>, <<67, 72, 0, 0>>, <<62, 153, 153, 154>>, <<0, 0, 0, 0>>,
      <<191, 128, 0, 0>>, NaNBits }

FloatTenths(bits) ==
    CASE bits = <<64, 64, 0, 0>> -> 30
      [] bits = <<67, 72, 0, 0>> -> 2000
      [] bits = <<62, 153, 153, 154>> -> 3
      [] bits = <<0, 0, 0, 0>> -> 0
      [] bits = <<191, 128, 0, 0>> -> 0 - 10
      [] OTHER -> 7

\* struct.unpack of one float in the byte order endian.
UnpackFloat(endian, b) == IF endian = "<" THEN Reverse(b) ELSE b

\* The bytes of a header written in the byte order endian: sizeof_hdr,
\* pixdim[4] and the xyzt_units byte.  nbytes is what read(348) returns.
EncodeHeader(endian, sizeof_hdr, bits, xyzt_units) ==
    LET be == << (sizeof_hdr \div 16777216) % 256, (sizeof_hdr \div 65536) % 256,
                 (sizeof_hdr \div 256) % 256, sizeof_hdr % 256 >>
    IN  [nbytes |-> 348,
         b0 |-> IF endian = "<" THEN Reverse(be) ELSE be,
         pix |-> IF endian = "<" THEN Reverse(bits) ELSE bits,
         xyzt_units |-> xyzt_units]

NoHeader == [nbytes |-> 0, b0 |-> <<0, 0, 0, 0>>, pix |-> <<0, 0, 0, 0>>, xyzt_units |-> 0]

\* The header of a source image: little-endian, 3.0 s.
SrcHeader(site, rel) == EncodeHeader("<", 348, <<64, 64, 0, 0>>, 10)

\* What the first 348 bytes of a fetched image can hold: the header as
\* published, a truncated file, a file that is not NIfTI-1, a header whose
\* pixdim[4] is zero, 0.3 us or NaN.
HeaderKinds == {"valid", "short", "unrecognized", "nonpositive", "tiny", "nan"}

ImageHeader(site, rel, kind) ==
    CASE kind = "short" -> [SrcHeader(site, rel) EXCEPT !.nbytes = 100]
      [] kind = "unrecognized" -> [SrcHeader(site, rel) EXCEPT !.b0 = <<0, 0, 0, 0>>]
      [] kind = "nonpositive" -> [SrcHeader(site, rel) EXCEPT !.pix = <<0, 0, 0, 0>>]
      [] kind = "tiny" -> EncodeHeader("<", 348, <<62, 153, 153, 154>>, 26)
      [] kind = "nan" -> EncodeHeader("<", 348, NaNBits, 10)
      [] OTHER -> SrcHeader(site, rel)

\* The scale factor of a time-unit code, in 1e-7 s per tenth of a unit.
UnitFactor(time_unit) ==
    CASE time_unit = 8 -> 1000000
      [] time_unit = 16 -> 1000
      [] time_unit = 24 -> 1
      [] OTHER -> 1000000

Reading(ok, err, tr, nan) == [ok |-> ok, err |-> err, tr |-> tr, nan |-> nan]

NoReading == Reading(FALSE, "", 0, FALSE)

\* nifti_tr_seconds: the scaled duration (in 1e-7 s), or a ValueError
\* (ok = FALSE).  NaN <= 0 is false, so a NaN is returned.
nifti_tr_seconds(hdr) ==
    LET endian == IF UnpackLE(hdr.b0) = 348 THEN "<" ELSE ">"
        time_unit == ((hdr.xyzt_units \div 8) % 8) * 8
        bits == UnpackFloat(endian, hdr.pix)
        tr_sec == FloatTenths(bits) * UnitFactor(time_unit)
    IN  IF hdr.nbytes # 348 THEN Reading(FALSE, "ShortHeader", 0, FALSE)
        ELSE IF UnpackLE(hdr.b0) # 348 /\ UnpackBE(hdr.b0) # 348
             THEN Reading(FALSE, "NotRecognizedHeader", 0, FALSE)
        ELSE IF bits = NaNBits THEN Reading(TRUE, "", 0, TRUE)
        ELSE IF tr_sec <= 0 THEN Reading(FALSE, "InvalidDuration", 0, FALSE)
        ELSE Reading(TRUE, "", tr_sec, FALSE)

\* round(x, 6): to the nearest microsecond (10 units of 1e-7 s).
Round6(v) == ((v + 5) \div 10) * 10

\* ------------------------------------------------------ destination tree
\* An entry of the destination tree: nothing, an annex link (a symlink
\* whose content may be present locally), or a regular file.  meta is the
\* JSON object the content holds, when it is one.
ENone == [t |-> "none", key |-> "", present |-> FALSE, big |-> FALSE, meta |-> NoMeta]
ELink(k, m) == [t |-> "link", key |-> k, present |-> FALSE, big |-> FALSE, meta |-> m]
EFile(m) == [t |-> "file", key |-> "", present |-> TRUE, big |-> FALSE, meta |-> m]
EDir == [t |-> "dir", key |-> "", present |-> TRUE, big |-> FALSE, meta |-> NoMeta]

\* os.path.lexists / Path.is_symlink / Path.exists (False on a dangling link).
LExists(e) == e.t # "none"
IsSymlink(e) == e.t = "link"
Exists(e) == e.t = "file" \/ (e.t = "link" /\ e.present)

\* The JSON content a key stands for (the per-file sidecars are JSON).
KeyMeta(f) == IF f.rel.ext = ".json" THEN SrcJsonContent(f.site, f.rel) ELSE NoMeta

\* ----------------------------------------------------------------- state
VARIABLES
    cfg,            \* the arguments of the running (or last) invocation
    pc,             \* where main() is
    rerun,          \* this run repeats the arguments of the completed run before it
    d, si, fi,      \* dataset, subject and file the build is at (1-based)
    tree,           \* inputs/abide-both: path -> entry
    registered,     \* destination store: (key, url) pairs known to the web remote
    manifest,       \* participants.tsv: written?, rows
    descr,          \* dataset_description.json written?
    participants,   \* main()'s in-memory list of mappings
    created_files, skipped_files,   \* build_abide's counters
    cache,          \* build_abide's site_template_cache
    destLog,        \* store commands run in the destination, this run
    srcLog,         \* store commands run in the source sites, this run
    writeLog,       \* files written or deleted in the destination, this run
    resolutions,    \* the last sidecar written this run: path, entry before, inputs, result
    candidates, annexed,    \* materialize_metadata's candidate lists
    batch,          \* the batch materialize_metadata is at (1-based)
    ok, to_unannex, \* the fetch results of the current batch
    report,         \* materialize_metadata's report dict
    reportFile,     \* the report file: written?, content
    matLog,         \* store commands run by materialize_metadata, this run
    lastOut,        \* exit code and records of the get of the batch, until its end
    subjA, subjB,   \* two source subjects given to the entity mapper
    idA, idB,       \* their participant ids
    relIn, relOut,  \* a path inside the directory of subjA, and its destination
    held,           \* what a loop has been handed so far: the mappings returned by
                    \* load_site_template_json, or the files of a subject with their destinations
    hdrIn, hdrOut,  \* the first bytes of an image file, and what nifti_tr_seconds makes of them
    envIn           \* what the source store will answer to the resolution about to run

buildVars == <<cfg, pc, rerun, d, si, fi, tree, registered, manifest, descr,
               participants, created_files, skipped_files, cache,
               destLog, srcLog, writeLog, resolutions>>

matVars == <<candidates, annexed, batch, ok, to_unannex, report, reportFile, matLog,
            lastOut>>

mapVars == <<subjA, subjB, idA, idB, relIn, relOut, held, hdrIn, hdrOut>>

envVars == <<envIn>>

SidecarModes == {"none", "template", "tr"}

\* The command lines main() accepts (build part).
Configs ==
    [dry_run : BOOLEAN, clean : BOOLEAN, sidecars : SidecarModes,
     overwrite : BOOLEAN, datasets : {{"abide1", "abide2"}},
     skip_build : {FALSE}, materialize : {FALSE}]

EmptyCache == [k \in {} |-> NoMeta]

NoFailures == [p \in {} |-> ""]

\* The report dict of materialize_metadata as created (lines 773-788); the
\* key still_annexed_after is absent (<<>>) until the end of the pass.
EmptyReport ==
    [total_candidates |-> 0, already_in_git |-> 0, annexed_candidates |-> 0,
     converted_to_git |-> <<>>, too_large_keep_annexed |-> <<>>,
     get_failures |-> NoFailures, unannex_failures |-> NoFailures,
     parse_errors |-> <<>>, stderr_snippets |-> <<>>, still_annexed_after |-> <<>>]

\* No command has run: (rc, records) of nothing.
NoOutput == [rc |-> 0, recs |-> <<>>]

NoSubject == [tag |-> <<>>, site_idx |-> 0, orig_id |-> <<>>]

NoPath == Rel(<<>>, <<>>, "", "")

\* No answers of the source store are fixed.
NoEnv == [t1 |-> "", t2 |-> "", src |-> "", img |-> FALSE, hdr |-> "", drops |-> FALSE]

\* main() before it is given arguments, on the tree t whose store knows
\* the (key, url) pairs reg.
InitMain(t, reg) ==
    /\ cfg = [dry_run |-> FALSE, clean |-> FALSE, sidecars |-> "template",
              overwrite |-> FALSE, datasets |-> {"abide1", "abide2"},
              skip_build |-> FALSE, materialize |-> FALSE]
    /\ rerun = FALSE
    /\ d = 1 /\ si = 1 /\ fi = 1
    /\ tree = t
    /\ registered = reg
    /\ manifest = [written |-> FALSE, rows |-> <<>>]
    /\ descr = FALSE
    /\ participants = <<>>
    /\ created_files = 0 /\ skipped_files = 0
    /\ cache = EmptyCache
    /\ destLog = <<>> /\ srcLog = <<>> /\ writeLog = <<>> /\ resolutions = <<>>
    /\ candidates = <<>> /\ annexed = <<>> /\ batch = 1
    /\ ok = {} /\ to_unannex = <<>>
    /\ report = EmptyReport
    /\ reportFile = [written |-> FALSE, content |-> EmptyReport]
    /\ matLog = <<>> /\ lastOut = NoOutput
    /\ idA = <<>> /\ idB = <<>>
    /\ relOut = NoPath
    /\ held = <<>> /\ hdrIn = NoHeader /\ hdrOut = NoReading
    /\ envIn = NoEnv

\* The first invocation finds an empty destination tree.
EmptyTree == [p \in DestPaths |-> ENone]

InitBuild ==
    /\ InitMain(EmptyTree, {})
    /\ pc = "idle"
    /\ subjA = NoSubject /\ subjB = NoSubject /\ relIn = NoPath

\* ---------------------------------------------------------------- main()
\* A new invocation (lines 1039-1061): fresh in-memory state; the tree, the
\* store and the written files are what the earlier runs left.
Main_Start(c) ==
    /\ pc \in {"idle", "done", "aborted"}
    /\ cfg' = c
    /\ rerun' = (pc = "done" /\ c = cfg)
    /\ pc' = IF c.skip_build
             THEN (IF c.clean THEN "aborted"
                   ELSE IF c.materialize THEN "mat_start" ELSE "done")
             ELSE (IF c.clean THEN "clean" ELSE "begin")
    /\ d' = 1 /\ si' = 1 /\ fi' = 1
    /\ participants' = <<>>
    /\ created_files' = 0 /\ skipped_files' = 0
    /\ cache' = EmptyCache
    /\ destLog' = <<>> /\ srcLog' = <<>> /\ writeLog' = <<>> /\ resolutions' = <<>>
    /\ candidates' = <<>> /\ annexed' = <<>> /\ batch' = 1
    /\ ok' = {} /\ to_unannex' = <<>>
    /\ report' = EmptyReport
    /\ matLog' = <<>> /\ lastOut' = NoOutput
    /\ UNCHANGED <<tree, registered, manifest, descr, reportFile, mapVars, envVars>>

\* clean_subject_tree with a dry-run test that is missing.
clean_subject_tree_nodry(t, dry_run) == [p \in DOMAIN t |-> ENone]

\* clean_subject_tree: remove every sub-* entry of the tree, unless dry-run
\* (every path of the modelled tree lies under a sub-* directory).
clean_subject_tree(t, dry_run) ==
    IF dry_run THEN t ELSE [p \in DOMAIN t |-> ENone]

Main_Clean ==
    /\ pc = "clean"
    /\ tree' = clean_subject_tree(tree, cfg.dry_run)
    /\ writeLog' = writeLog \o
          [i \in 1..(IF tree' # tree THEN 1 ELSE 0) |-> <<"rmtree", "sub-*">>]
    /\ pc' = "begin"
    /\ UNCHANGED <<cfg, rerun, d, si, fi, registered, manifest, descr, participants,
                   created_files, skipped_files, cache, destLog, srcLog, resolutions>>
    /\ UNCHANGED <<matVars, mapVars, envVars>>

\* ------------------------------------------------------- build position
CurDs == DatasetNames[d]
CurSubj == Subjects(CurDs)[si]
CurFiles == SubjectFiles(CurSubj.site, CurSubj.orig)
CurFile == [ds |-> CurDs, site |-> CurSubj.site, orig |-> CurSubj.orig, rel |-> CurFiles[fi]]

\* do_sidecars (lines 541-543; no --sidecar-participant-id restriction).
do_sidecars == cfg.sidecars # "none"
ensure_tr == cfg.sidecars = "tr"

\* Where the loops of build_abide go after the current file.
AfterFile ==
    IF fi < Len(CurFiles) THEN fi' = fi + 1 /\ pc' = "link" /\ si' = si
    ELSE IF si < Len(Subjects(CurDs)) THEN si' = si + 1 /\ pc' = "subject" /\ fi' = 1
    ELSE pc' = "end" /\ si' = si /\ fi' = fi

\* Entry of build_abide (lines 520-529), or main() skipping the dataset.
Build_Begin ==
    /\ pc = "begin"
    /\ IF CurDs \in cfg.datasets
       THEN /\ created_files' = 0 /\ skipped_files' = 0
            /\ cache' = EmptyCache
            /\ si' = 1 /\ fi' = 1 /\ d' = d
            /\ pc' = IF Subjects(CurDs) = <<>> THEN "end" ELSE "subject"
       ELSE /\ UNCHANGED <<created_files, skipped_files, cache, si, fi>>
            /\ IF d < Len(DatasetNames) THEN d' = d + 1 /\ pc' = "begin"
               ELSE d' = d /\ pc' = "manifest"
    /\ UNCHANGED <<cfg, rerun, tree, registered, manifest, descr, participants,
                   destLog, srcLog, writeLog, resolutions>>
    /\ UNCHANGED <<matVars, mapVars, envVars>>

\* The mapping appended for a subject (lines 535-547).
MappingRow(ds, site, orig_id) ==
    [participant_id |-> participant_id(version_tag(ds), site_index(ds, site), orig_id),
     source_dataset |-> ds, source_site |-> site,
     site_index |-> site_index(ds, site), source_subject_id |-> orig_id]

Build_Subject ==
    /\ pc = "subject"
    /\ participants' = Append(participants, MappingRow(CurDs, CurSubj.site, CurSubj.orig))
    /\ fi' = 1
    /\ IF CurFiles # <<>> THEN pc' = "link" /\ si' = si
       ELSE IF si < Len(Subjects(CurDs)) THEN si' = si + 1 /\ pc' = "subject"
       ELSE pc' = "end" /\ si' = si
    /\ UNCHANGED <<cfg, rerun, d, tree, registered, manifest, descr,
                   created_files, skipped_files, cache, destLog, srcLog, writeLog,
                   resolutions>>
    /\ UNCHANGED <<matVars, mapVars, envVars>>

\* ---------------------------------------------------------------- linker
\* What the external commands of one link can do: the whereis answer,
\* whether fromkey succeeds, and how many registerurl commands succeed
\* before one fails (run_cmd raises on a non-zero exit).
LinkOutcomes(f) ==
    { o \in [reply : WhereisReplies(f), fromkey_ok : BOOLEAN,
             nreg : 0..Len(SrcWhereisUrls(f.site, f.rel))] :
        /\ o.reply.key = "" => (o.fromkey_ok /\ o.nreg = 0)
        /\ ~o.fromkey_ok => o.nreg = 0
        /\ o.nreg <= Len(Uniq(o.reply.urls)) }

\* annex_registerurls: one registerurl per URL, in order, until one fails.
annex_registerurls(key, urls, nreg) ==
    [ok |-> nreg >= Len(urls),
     log |-> [i \in 1..(IF nreg >= Len(urls) THEN Len(urls) ELSE nreg + 1) |->
                 <<"registerurl", key, urls[i]>>],
     reg |-> { <<key, urls[i]>> : i \in 1..(IF nreg >= Len(urls) THEN Len(urls) ELSE nreg) }]

LinkResult(done, e, dlog, slog, reg, created, skipped) ==
    [ok |-> done, entry |-> e, dlog |-> dlog, slog |-> slog, reg |-> reg,
     created |-> created, skipped |-> skipped]

\* A linker that queries the source store before looking at the destination.
link_file_query_first(e, f, dest, dry_run, o) ==
    IF dry_run THEN LinkResult(TRUE, e, <<>>, <<>>, {}, IF LExists(e) THEN 0 ELSE 1,
                               IF LExists(e) THEN 1 ELSE 0)
    ELSE LinkResult(TRUE, e, <<>>, << <<"whereis", f.site, f.rel>> >>, {},
                    IF LExists(e) THEN 0 ELSE 1, IF LExists(e) THEN 1 ELSE 0)

\* A linker that installs the reference under a key of its own.
link_file_rehash(e, f, dest, dry_run, o) ==
    IF LExists(e) THEN LinkResult(TRUE, e, <<>>, <<>>, {}, 0, 1)
    ELSE IF dry_run THEN LinkResult(TRUE, e, <<>>, <<>>, {}, 1, 0)
    ELSE LET w == annex_whereis_key_urls(o.reply)
             r == annex_registerurls(w.key, w.urls, o.nreg)
         IN  LinkResult(w.ok /\ o.fromkey_ok /\ r.ok,
                        IF w.ok /\ o.fromkey_ok THEN ELink("KEY-new", KeyMeta(f)) ELSE e,
                        IF w.ok THEN << <<"fromkey", "KEY-new", dest>> >> \o r.log ELSE <<>>,
                        << <<"whereis", f.site, f.rel>> >>,
                        IF w.ok /\ o.fromkey_ok THEN r.reg ELSE {},
                        IF w.ok /\ o.fromkey_ok /\ r.ok THEN 1 ELSE 0, 0)

\* A linker that passes over a file whose key the source store cannot tell.
link_file_skip_nokey(e, f, dest, dry_run, o) ==
    IF LExists(e) THEN LinkResult(TRUE, e, <<>>, <<>>, {}, 0, 1)
    ELSE IF dry_run THEN LinkResult(TRUE, e, <<>>, <<>>, {}, 1, 0)
    ELSE LET w == annex_whereis_key_urls(o.reply)
             slog == << <<"whereis", f.site, f.rel>> >>
             r == annex_registerurls(w.key, w.urls, o.nreg)
         IN  IF ~w.ok THEN LinkResult(TRUE, e, <<>>, slog, {}, 0, 0)
             ELSE IF ~o.fromkey_ok
                  THEN LinkResult(FALSE, e, << <<"fromkey", w.key, dest>> >>, slog, {}, 0, 0)
             ELSE LinkResult(r.ok, ELink(w.key, KeyMeta(f)),
                             << <<"fromkey", w.key, dest>> >> \o r.log, slog, r.reg,
                             IF r.ok THEN 1 ELSE 0, 0)

\* A linker without the is_dir test: whatever exists counts as skipped.
link_file_nodircheck(e, f, dest, dry_run, o) ==
    IF LExists(e) THEN LinkResult(TRUE, e, <<>>, <<>>, {}, 0, 1)
    ELSE link_file_skip_nokey(e, f, dest, dry_run, [o EXCEPT !.reply.key = SrcKey(f.site, f.rel)])

\* A linker that replaces an existing link whose key is not the source's.
link_file_replace_stale(e, f, dest, dry_run, o) ==
    IF LExists(e) /\ ~(e.t = "link" /\ e.key # SrcKey(f.site, f.rel))
    THEN IF e.t = "dir" THEN LinkResult(FALSE, e, <<>>, <<>>, {}, 0, 0)
         ELSE LinkResult(TRUE, e, <<>>, <<>>, {}, 0, 1)
    ELSE link_file_skip_nokey(ENone, f, dest, dry_run,
                              [o EXCEPT !.reply.key = SrcKey(f.site, f.rel)])

\* Lines 569-582 for one source file: skip an existing destination, else
\* whereis, fromkey and registerurl.  ok = FALSE is an exception raised.
link_file(e, f, dest, dry_run, o) ==
    IF LExists(e)
    THEN IF e.t = "dir" THEN LinkResult(FALSE, e, <<>>, <<>>, {}, 0, 0)
         ELSE LinkResult(TRUE, e, <<>>, <<>>, {}, 0, 1)
    ELSE IF dry_run THEN LinkResult(TRUE, e, <<>>, <<>>, {}, 1, 0)
    ELSE LET w == annex_whereis_key_urls(o.reply)
             slog == << <<"whereis", f.site, f.rel>> >>
             r == annex_registerurls(w.key, w.urls, o.nreg)
         IN  IF ~w.ok THEN LinkResult(FALSE, e, <<>>, slog, {}, 0, 0)
             ELSE IF ~o.fromkey_ok
                  THEN LinkResult(FALSE, e, << <<"fromkey", w.key, dest>> >>, slog, {}, 0, 0)
             ELSE LinkResult(r.ok, ELink(w.key, KeyMeta(f)),
                             << <<"fromkey", w.key, dest>> >> \o r.log, slog, r.reg,
                             IF r.ok THEN 1 ELSE 0, 0)

\* One iteration of the file loop up to the sidecar calls (lines 549-582).
Build_Link ==
    /\ pc = "link"
    /\ \E f \in {CurFile} : \E dest \in {DestOf(f)} :
         IF do_sidecars /\ (is_bold_json(f.rel) \/ is_t1w_json(f.rel))
         THEN /\ AfterFile
              /\ UNCHANGED <<tree, registered, created_files, skipped_files,
                             destLog, srcLog>>
         ELSE \E o \in LinkOutcomes(f) :
              \E r \in {link_file(tree[dest], f, dest, cfg.dry_run, o)} :
                /\ tree' = [tree EXCEPT ![dest] = r.entry]
                /\ registered' = registered \cup r.reg
                /\ created_files' = created_files + r.created
                /\ skipped_files' = skipped_files + r.skipped
                /\ destLog' = destLog \o r.dlog
                /\ srcLog' = srcLog \o r.slog
                /\ IF ~r.ok THEN pc' = "aborted" /\ UNCHANGED <<si, fi>>
                   ELSE IF do_sidecars /\ (is_bold_nifti(f.rel) \/ is_t1w_nifti(f.rel))
                        THEN pc' = "sidecar" /\ UNCHANGED <<si, fi>>
                   ELSE AfterFile
    /\ UNCHANGED <<cfg, rerun, d, manifest, descr, participants, cache, writeLog,
                   resolutions>>
    /\ UNCHANGED <<matVars, mapVars, envVars>>

\* ------------------------------------------------------ sidecar resolver
GetDrop(site, what) == << <<"get", site, what>>, <<"drop", site, what>> >>

\* What a load returns: the mapping, the cache and the commands run.  own:
\* the mapping is a dict of the caller's own (dict(...), lines 292 and 310).
Loaded(meta, c, log) == [meta |-> meta, cache |-> c, log |-> log, own |-> TRUE]

\* A loader that returns the cached dict itself.
load_site_template_json_shared(c, site, tname, dry_run, fetch_ok) ==
    IF <<site, tname>> \in DOMAIN c
    THEN [Loaded(c[<<site, tname>>], c, <<>>) EXCEPT !.own = FALSE]
    ELSE LET fetched == TemplateTracked(site, tname) /\ ~dry_run
             meta == IF fetched /\ fetch_ok THEN TemplateContent(site, tname) ELSE NoMeta
         IN  [Loaded(meta, (<<site, tname>> :> meta) @@ c,
                     IF fetched THEN GetDrop(site, tname) ELSE <<>>) EXCEPT !.own = FALSE]

\* load_site_template_json: the cached copy, or one fetch/read/drop cycle
\* whose result (an empty object on any failure) is cached.
load_site_template_json(c, site, tname, dry_run, fetch_ok) ==
    IF <<site, tname>> \in DOMAIN c THEN Loaded(c[<<site, tname>>], c, <<>>)
    ELSE LET fetched == TemplateTracked(site, tname) /\ ~dry_run
             meta == IF fetched /\ fetch_ok THEN TemplateContent(site, tname) ELSE NoMeta
         IN  Loaded(meta, (<<site, tname>> :> meta) @@ c,
                    IF fetched THEN GetDrop(site, tname) ELSE <<>>)

\* The per-file source sidecar (lines 382-394): fetched, read and dropped
\* when it is in the source tree; {} on any failure.
load_src_json(site, rel, dry_run, fetch_ok) ==
    LET src_json_rel == sidecar_json_path(rel)
        fetched == SrcTracked(site, src_json_rel) /\ ~dry_run
    IN  Loaded(IF fetched /\ fetch_ok THEN SrcJsonContent(site, src_json_rel) ELSE NoMeta,
               EmptyCache,
               IF fetched THEN GetDrop(site, src_json_rel) ELSE <<>>)

\* The merge with the per-file sidecar applied first (templates win).
merge_meta_templates_win(coarse, finer, src_meta) ==
    Update(Update(src_meta, coarse), finer)

\* meta = coarse.update(finer); dict(template_meta).update(src_meta).
merge_meta(coarse, finer, src_meta) ==
    Update(Update(coarse, finer), src_meta)

NoTr == [some |-> FALSE, v |-> 0, nan |-> FALSE]
SomeTr(v) == [some |-> TRUE, v |-> v, nan |-> FALSE]
ReadTr(read) == [some |-> TRUE, v |-> read.tr, nan |-> read.nan]

\* float("nan") as a JSON value.
NaN == [num |-> TRUE, v |-> 0, s |-> <<"N", "a", "N">>]

\* A source_tr that never takes the duration of the source metadata.
source_tr_never(src_meta, template_meta, overwrite) == NoTr

\* Lines 397-401: a RepetitionTime of the source metadata is preferred when
\* overwrite is off and it is a positive number.
source_tr(src_meta, template_meta, overwrite) ==
    LET has == Truthy(src_meta, "RepetitionTime")
                 \/ "RepetitionTime" \in DOMAIN template_meta
        rt == IF Truthy(src_meta, "RepetitionTime") THEN src_meta["RepetitionTime"]
              ELSE template_meta["RepetitionTime"]
    IN  IF ~overwrite /\ has /\ rt.num /\ rt.v > 0 THEN SomeTr(rt.v) ELSE NoTr

\* An extraction that records a zero duration when it fails.
extract_tr_zero_on_failure(tr1, want_tr, dry_run, site, rel, fetch_ok, hdr) ==
    LET need_img == ~tr1.some /\ want_tr
        read == nifti_tr_seconds(hdr)
    IN  IF ~need_img \/ dry_run THEN [tr |-> tr1, log |-> <<>>]
        ELSE IF fetch_ok /\ read.ok
        THEN [tr |-> ReadTr(read), log |-> GetDrop(site, rel)]
        ELSE [tr |-> SomeTr(0),
              log |-> << <<"get", site, rel>>, <<"warn", site, rel>>,
                         <<"drop", site, rel>> >>]

\* Lines 403-416: the image is fetched and its header read when no duration
\* was taken from the metadata and extraction is enabled; a failure of
\* either prints a warning; the image is dropped in every case.
extract_tr(tr1, want_tr, dry_run, site, rel, fetch_ok, hdr) ==
    LET need_img == ~tr1.some /\ want_tr
        read == nifti_tr_seconds(hdr)
    IN  IF ~need_img \/ dry_run THEN [tr |-> tr1, log |-> <<>>]
        ELSE IF fetch_ok /\ read.ok
        THEN [tr |-> ReadTr(read), log |-> GetDrop(site, rel)]
        ELSE [tr |-> tr1,
              log |-> << <<"get", site, rel>>, <<"warn", site, rel>>,
                         <<"drop", site, rel>> >>]

\* A skip test that asks for RepetitionTime in every sidecar mode.
bold_already_resolved_needs_tr(e, overwrite, want_tr) ==
    Exists(e) /\ ~overwrite /\ "RepetitionTime" \in DOMAIN e.meta

\* A skip test that never skips when a duration is to be ensured.
bold_already_resolved_template_only(e, overwrite, want_tr) ==
    Exists(e) /\ ~overwrite /\ ~want_tr

\* Lines 329-335: an existing sidecar is left alone unless overwrite is
\* requested or (in tr mode) it lacks RepetitionTime.
bold_already_resolved(e, overwrite, want_tr) ==
    Exists(e) /\ ~overwrite /\ (~want_tr \/ "RepetitionTime" \in DOMAIN e.meta)

\* The outcome of one resolution.  coarse, finer and src are the three
\* objects that were loaded (an empty object for one that was not).
Resolved(skip, write, meta, c, log, coarse, finer, src) ==
    [skip |-> skip, write |-> write, meta |-> meta, cache |-> c, log |-> log,
     coarse |-> coarse, finer |-> finer, src |-> src]

FirstOf(a, b) == IF a # <<>> THEN a ELSE b

\* ensure_bold_sidecar (lines 326-430).  env: which fetches succeed.
ensure_bold_sidecar(e, f, dest, dry_run, overwrite, want_tr, c, env) ==
    IF bold_already_resolved(e, overwrite, want_tr)
    THEN Resolved(TRUE, FALSE, NoMeta, c, <<>>, NoMeta, NoMeta, NoMeta)
    ELSE
    LET task == FirstOf(parse_task_name(dest), parse_task_name(f.rel))
        acq == FirstOf(parse_bids_entity(dest, "acq"), parse_bids_entity(f.rel, "acq"))
        l1 == IF task # <<>>
              THEN load_site_template_json(c, f.site, TName(task, <<>>, "bold"),
                                           dry_run, env.t1)
              ELSE Loaded(NoMeta, c, <<>>)
        l2 == IF task # <<>> /\ acq # <<>>
              THEN load_site_template_json(l1.cache, f.site, TName(task, acq, "bold"),
                                           dry_run, env.t2)
              ELSE IF acq # <<>>
              THEN load_site_template_json(l1.cache, f.site, TName(<<>>, acq, "bold"),
                                           dry_run, env.t2)
              ELSE Loaded(NoMeta, l1.cache, <<>>)
        ls == load_src_json(f.site, f.rel, dry_run, env.src)
        tr1 == source_tr(ls.meta, Update(l1.meta, l2.meta), overwrite)
        ex == extract_tr(tr1, want_tr, dry_run, f.site, f.rel, env.img,
                         ImageHeader(f.site, f.rel, env.hdr))
        tr2 == ex.tr
        imglog == ex.log
        meta0 == merge_meta(l1.meta, l2.meta, ls.meta)
        meta1 == IF tr2.some
                 THEN Update(meta0, "RepetitionTime" :>
                                      IF tr2.nan THEN NaN ELSE Num(Round6(tr2.v)))
                 ELSE meta0
        meta2 == IF task # <<>> /\ "TaskName" \notin DOMAIN meta1
                 THEN Update(meta1, "TaskName" :> Txt(task)) ELSE meta1
    IN  Resolved(FALSE, ~dry_run, meta2, l2.cache, l1.log \o l2.log \o ls.log \o imglog,
                 l1.meta, l2.meta, ls.meta)

\* ensure_t1w_sidecar (lines 445-504).
ensure_t1w_sidecar(e, f, dest, dry_run, overwrite, c, env) ==
    IF Exists(e) /\ ~overwrite
    THEN Resolved(TRUE, FALSE, NoMeta, c, <<>>, NoMeta, NoMeta, NoMeta)
    ELSE
    LET acq == FirstOf(parse_bids_entity(dest, "acq"), parse_bids_entity(f.rel, "acq"))
        l1 == load_site_template_json(c, f.site, TName(<<>>, <<>>, "T1w"), dry_run, env.t1)
        l2 == IF acq # <<>>
              THEN load_site_template_json(l1.cache, f.site, TName(<<>>, acq, "T1w"),
                                           dry_run, env.t2)
              ELSE Loaded(NoMeta, l1.cache, <<>>)
        ls == load_src_json(f.site, f.rel, dry_run, env.src)
        meta == merge_meta(l1.meta, l2.meta, ls.meta)
    IN  Resolved(FALSE, ~dry_run /\ meta # NoMeta, meta, l2.cache,
                 l1.log \o l2.log \o ls.log, l1.meta, l2.meta, ls.meta)

\* What fetching and reading a JSON file of the source can come to: an
\* object, a failing get, text that is not JSON, JSON that is not an object.
LoadKinds == {"object", "fetch_error", "invalid_json", "not_object"}

\* A reader that takes every JSON value for a mapping.
read_ok_any_json(kind) == kind \in {"object", "not_object"}

\* Lines 300-305 (and 387-393, 486-492): the loaded value is used when
\* neither annex_get nor json.loads raised and it is a dict.
read_ok(kind) == kind = "object"

\* An annex_drop that lets the failure of the command through.
annex_drop_raises_unchecked(drop_ok) == ~drop_ok

\* annex_drop (lines 73-87): a failing drop is caught and printed.
annex_drop_raises(drop_ok) == FALSE

\* What the source store answers during one resolution: the two templates
\* and the per-file sidecar, whether the get of the image succeeds and what
\* its header holds, whether the drop commands succeed.
SourceEnvs ==
    { env \in [t1 : LoadKinds, t2 : LoadKinds, src : LoadKinds, img : BOOLEAN,
               hdr : HeaderKinds, drops : BOOLEAN] : ~env.img => env.hdr = "valid" }

\* What a resolution makes of the answers: which loads give a mapping, and
\* whether a drop raises.
EnvClass(e) ==
    [t1 |-> read_ok(e.t1), t2 |-> read_ok(e.t2), src |-> read_ok(e.src),
     img |-> e.img, hdr |-> e.hdr, drop_raises |-> annex_drop_raises(e.drops)]

\* The header outcomes drawn when whole runs are explored: a duration that is
\* returned and the three ways nifti_tr_seconds raises.  The readings that
\* are returned but are no usable duration ("tiny", "nan") are explored one
\* resolution at a time, under SpecResolve.
RunHeaderKinds == {"valid", "short", "unrecognized", "nonpositive"}

SidecarEnvs == { EnvClass(e) : e \in { x \in SourceEnvs : x.hdr \in RunHeaderKinds } }

HasDrop(log) == \E i \in 1..Len(log) : log[i][1] = "drop"

\* The sidecar calls that end an iteration of the file loop (lines 584-611).
\* Writing through an annex link raises (its target is missing or locked).
SidecarStep(env) ==
    /\ pc = "sidecar"
    /\ \E f \in {CurFile} : \E dest \in {DestOf(f)} :
       \E dest_json \in {sidecar_json_path(dest)} :
       \E r \in {IF is_bold_nifti(f.rel)
                 THEN ensure_bold_sidecar(tree[dest_json], f, dest, cfg.dry_run,
                                          cfg.overwrite, ensure_tr, cache, env)
                 ELSE ensure_t1w_sidecar(tree[dest_json], f, dest, cfg.dry_run,
                                         cfg.overwrite, cache, env)} :
         /\ cache' = r.cache
         /\ srcLog' = srcLog \o r.log
         /\ IF (r.write /\ IsSymlink(tree[dest_json]))
               \/ (env.drop_raises /\ HasDrop(r.log))
            THEN pc' = "aborted" /\ UNCHANGED <<tree, writeLog, resolutions, si, fi>>
            ELSE /\ tree' = IF r.write
                            THEN [tree EXCEPT ![dest_json] = EFile(r.meta)] ELSE tree
                 /\ writeLog' = IF r.write
                                THEN Append(writeLog, <<"sidecar", dest_json>>)
                                ELSE writeLog
                 /\ resolutions' =
                       IF r.write
                       THEN << [path |-> dest_json, before |-> tree[dest_json],
                                coarse |-> r.coarse, finer |-> r.finer,
                                src |-> r.src, meta |-> r.meta] >>
                       ELSE resolutions
                 /\ AfterFile
    /\ UNCHANGED <<cfg, rerun, d, registered, manifest, descr, participants,
                   created_files, skipped_files, destLog>>
    /\ UNCHANGED <<matVars, mapVars>>

Build_Sidecar == (\E env \in SidecarEnvs : SidecarStep(env)) /\ UNCHANGED envVars

\* Return of build_abide (lines 613-616) and main()'s next call.
Build_End ==
    /\ pc = "end"
    /\ IF d < Len(DatasetNames) THEN d' = d + 1 /\ pc' = "begin"
       ELSE d' = d /\ pc' = "manifest"
    /\ UNCHANGED <<cfg, rerun, si, fi, tree, registered, manifest, descr, participants,
                   created_files, skipped_files, cache, destLog, srcLog, writeLog,
                   resolutions>>
    /\ UNCHANGED <<matVars, mapVars, envVars>>

\* -------------------------------------------------------------- manifest
Ord(ch) ==
    CASE ch = "-" -> 45 [] ch = "0" -> 48 [] ch = "1" -> 49 [] ch = "2" -> 50
      [] ch = "3" -> 51 [] ch = "4" -> 52 [] ch = "5" -> 53 [] ch = "6" -> 54
      [] ch = "7" -> 55 [] ch = "8" -> 56 [] ch = "9" -> 57 [] ch = "b" -> 98
      [] ch = "s" -> 115 [] ch = "u" -> 117 [] ch = "v" -> 118 [] OTHER -> 120

RECURSIVE StrLess(_, _)
\* a < b for Python strings.
StrLess(a, b) ==
    IF b = <<>> THEN FALSE
    ELSE IF a = <<>> THEN TRUE
    ELSE IF a[1] # b[1] THEN Ord(a[1]) < Ord(b[1])
    ELSE StrLess(Tail(a), Tail(b))

RECURSIVE SortedRows(_)
\* sorted(participants, key=lambda r: r[0]): a stable insertion sort.
SortedRows(rows) ==
    IF rows = <<>> THEN <<>>
    ELSE LET front == SortedRows(SubSeq(rows, 1, Len(rows) - 1))
             last == rows[Len(rows)]
             n == Cardinality({i \in 1..Len(front) :
                                 ~StrLess(last.participant_id, front[i].participant_id)})
         IN  SubSeq(front, 1, n) \o <<last>> \o SubSeq(front, n + 1, Len(front))

\* A writer that keeps the rows in the order they were appended.
write_participants_tsv_unsorted(m, rows, dry_run) ==
    IF dry_run THEN m ELSE [written |-> TRUE, rows |-> rows]

\* A writer that appends the sorted rows to the rows of the file.
write_participants_tsv_append(m, rows, dry_run) ==
    IF dry_run THEN m ELSE [written |-> TRUE, rows |-> m.rows \o SortedRows(rows)]

\* write_participants_tsv: the file is replaced by the sorted rows.
write_participants_tsv(m, rows, dry_run) ==
    IF dry_run THEN m ELSE [written |-> TRUE, rows |-> SortedRows(rows)]

Main_WriteParticipants ==
    /\ pc = "manifest"
    /\ manifest' = write_participants_tsv(manifest, participants, cfg.dry_run)
    /\ writeLog' = IF cfg.dry_run THEN writeLog
                   ELSE Append(writeLog, <<"participants.tsv", "">>)
    /\ pc' = "descr"
    /\ UNCHANGED <<cfg, rerun, d, si, fi, tree, registered, descr, participants,
                   created_files, skipped_files, cache, destLog, srcLog, resolutions>>
    /\ UNCHANGED <<matVars, mapVars, envVars>>

\* write_dataset_description (lines 655-669).
Main_WriteDescription ==
    /\ pc = "descr"
    /\ descr' = (descr \/ ~cfg.dry_run)
    /\ writeLog' = IF cfg.dry_run THEN writeLog
                   ELSE Append(writeLog, <<"dataset_description.json", "">>)
    /\ pc' = IF cfg.materialize THEN "mat_start" ELSE "done"
    /\ UNCHANGED <<cfg, rerun, d, si, fi, tree, registered, manifest, participants,
                   created_files, skipped_files, cache, destLog, srcLog, resolutions>>
    /\ UNCHANGED <<matVars, mapVars, envVars>>

\* ------------------------------------------------------------ materializer
\* METADATA_PATTERNS, by the extension each pattern selects.
METADATA_PATTERNS == {".json", ".tsv", ".bval", ".bvec", ".txt", ".csv"}

\* Path order (the paths of one modelled tree that are candidates differ in
\* their first component).
PathLess(p, q) == StrLess(p.top, q.top)

RECURSIVE SortPaths(_)
\* sorted(paths).
SortPaths(S) ==
    IF S = {} THEN <<>>
    ELSE LET m == CHOOSE x \in S : \A y \in S : ~PathLess(y, x)
         IN  <<m>> \o SortPaths(S \ {m})

\* iter_metadata_candidate_relpaths: the files and links of the tree whose
\* name matches a pattern, sorted.
iter_metadata_candidate_relpaths(t) ==
    SortPaths({ p \in DOMAIN t : LExists(t[p]) /\ p.ext \in METADATA_PATTERNS })

\* chunked(items, n): the i-th element is the i-th slice of n items.
chunked(items, n) ==
    [i \in 1..((Len(items) + n - 1) \div n) |->
        SubSeq(items, (i - 1) * n + 1, IF i * n < Len(items) THEN i * n ELSE Len(items))]

\* What the JSON lines of a command say of one requested path: nothing, a
\* record with success true, one with success false, both, or a record
\* whose success is neither.
RecordKinds == {"none", "ok", "fail", "ok+fail", "nosuccess"}
SaysOk(kind) == kind \in {"ok", "ok+fail"}
SaysFail(kind) == kind \in {"fail", "ok+fail"}

\* run_annex_json in dry-run: (0, [], [], "").
DryReply(paths) ==
    [rc |-> 0, recs |-> [p \in paths |-> "none"], effect |-> {}, noise |-> FALSE]

\* run_annex_json: the exit code, the records about the requested paths,
\* the requested paths the command changed in the tree, and whether it
\* printed a line that is not JSON and wrote to stderr (explored for the
\* commands that print no record).
run_annex_json(paths, dry_run) ==
    IF dry_run THEN {DryReply(paths)}
    ELSE { r \in [rc : {0, 1}, recs : [paths -> RecordKinds], effect : SUBSET paths,
                  noise : BOOLEAN] :
             r.noise => \A p \in paths : r.recs[p] = "none" }

\* dict.setdefault over a set of keys.
SetDefaults(m, keys, v) ==
    [p \in DOMAIN m \cup keys |-> IF p \in DOMAIN m THEN m[p] ELSE v]

\* report[...][rel] = message for every record with success false.
SetFailures(m, paths, reply) ==
    [p \in DOMAIN m \cup {q \in paths : SaysFail(reply.recs[q])} |->
        IF p \in paths /\ SaysFail(reply.recs[p]) THEN "error-messages" ELSE m[p]]

HasRecords(paths, reply) == \E p \in paths : reply.recs[p] # "none"

\* git annex get: the content of the paths it fetched is now present.
annex_get_effect(t, reply) ==
    [p \in DOMAIN t |-> IF p \in reply.effect THEN [t[p] EXCEPT !.present = TRUE] ELSE t[p]]

\* git annex unannex: the paths it converted are regular files.
annex_unannex_effect(t, reply) ==
    [p \in DOMAIN t |->
        IF p \in reply.effect THEN [EFile(t[p].meta) EXCEPT !.big = t[p].big] ELSE t[p]]

\* A fetch that counts only the paths with a success record as fetched and
\* records every other path as failed.
fetch_outcome_records_only(chunk, gf, t, dry_run, reply) ==
    LET paths == Range(chunk)
        ok0 == { p \in paths : SaysOk(reply.recs[p]) }
        gf1 == SetFailures(gf, paths, reply)
    IN  IF dry_run THEN [ok |-> paths, get_failures |-> gf1]
        ELSE [ok |-> ok0,
              get_failures |->
                SetDefaults(gf1, paths \ ok0,
                            "content not present after get (no JSON record)")]

\* Lines 816-848: which paths of the batch count as fetched, and the fetch
\* failures recorded (t is the tree after the command).
fetch_outcome(chunk, gf, t, dry_run, reply) ==
    LET paths == Range(chunk)
        ok0 == { p \in paths : SaysOk(reply.recs[p]) }
        gf1 == SetFailures(gf, paths, reply)
        rest == { p \in paths : p \notin ok0 /\ p \notin DOMAIN gf1 }
    IN  IF dry_run THEN [ok |-> paths, get_failures |-> gf1]
        ELSE IF reply.rc # 0 /\ ~HasRecords(paths, reply)
        THEN [ok |-> ok0,
              get_failures |-> SetDefaults(gf1, paths, "get returned rc (no JSON output)")]
        ELSE [ok |-> ok0 \cup { p \in rest : Exists(t[p]) },
              get_failures |->
                SetDefaults(gf1, { p \in rest : ~Exists(t[p]) },
                            "content not present after get (no JSON record)")]

\* A size filter that lets every fetched path through.
size_filter_nolimit(chunk, fetched, gf, t, dry_run) ==
    [to_unannex |-> SelectSeq(chunk, LAMBDA p : p \in fetched /\ (dry_run \/ Exists(t[p]))),
     too_large |-> <<>>,
     get_failures |->
        SetDefaults(gf, { p \in fetched \cap Range(chunk) : ~dry_run /\ ~Exists(t[p]) },
                    "content not present after successful get")]

\* Lines 850-868: the fetched paths to promote; those above max_mb are
\* listed and kept; those without content are fetch failures.
size_filter(chunk, fetched, gf, t, dry_run) ==
    [to_unannex |->
        SelectSeq(chunk, LAMBDA p : p \in fetched
                                     /\ (dry_run \/ (Exists(t[p]) /\ ~t[p].big))),
     too_large |->
        SelectSeq(chunk, LAMBDA p : p \in fetched /\ ~dry_run /\ Exists(t[p]) /\ t[p].big),
     get_failures |->
        SetDefaults(gf, { p \in fetched \cap Range(chunk) : ~dry_run /\ ~Exists(t[p]) },
                    "content not present after successful get")]

\* A loop that starts the get of the next batch before the unannex of this
\* one.
after_fetch_prefetch(to_un, b, n) ==
    IF b < n THEN "mat_fetch"
    ELSE IF to_un # <<>> THEN "mat_promote" ELSE "mat_finish"

\* A loop left (break) when a batch has nothing to promote.
after_fetch_break(to_un, b, n) ==
    IF to_un # <<>> THEN "mat_promote" ELSE "mat_finish"

\* Lines 870-871 and the loop of line 798: promote, or go to the next batch.
after_fetch(to_un, b, n) ==
    IF to_un # <<>> THEN "mat_promote"
    ELSE IF b < n THEN "mat_fetch" ELSE "mat_finish"

\* Lines 887-915: which paths count as converted, and the failures recorded
\* (t is the tree after the command).
promote_outcome(to_un, uf, t, dry_run, reply) ==
    LET paths == Range(to_un)
        conv0 == { p \in paths : SaysOk(reply.recs[p]) }
        uf1 == SetFailures(uf, paths, reply)
        rest == { p \in paths : p \notin conv0 /\ p \notin DOMAIN uf1 }
    IN  IF dry_run THEN [converted |-> paths, unannex_failures |-> uf1]
        ELSE IF reply.rc # 0 /\ ~HasRecords(paths, reply)
        THEN [converted |-> conv0,
              unannex_failures |->
                SetDefaults(uf1, paths, "unannex returned rc (no JSON output)")]
        ELSE [converted |-> conv0 \cup { p \in rest : ~IsSymlink(t[p]) },
              unannex_failures |->
                SetDefaults(uf1, { p \in rest : IsSymlink(t[p]) },
                            "still annexed after unannex (no JSON record)")]

\* What a command adds to parse_errors and stderr_snippets.
Noise(reply) == IF reply.noise THEN <<"noise">> ELSE <<>>

NumChunks == Len(chunked(annexed, ChunkN))

\* report_path.write_text(json.dumps(report, ...)) unless dry-run.
write_report(file, rep, dry_run) ==
    IF dry_run THEN file ELSE [written |-> TRUE, content |-> rep]

\* materialize_metadata up to its loop (lines 768-795).
Mat_Start ==
    /\ pc = "mat_start"
    /\ \E cands \in {iter_metadata_candidate_relpaths(tree)} :
       \E anx \in {SelectSeq(cands, LAMBDA p : IsSymlink(tree[p]))} :
       \E rep \in {[EmptyReport EXCEPT !.total_candidates = Len(cands),
                                       !.already_in_git = Len(cands) - Len(anx),
                                       !.annexed_candidates = Len(anx)]} :
         /\ candidates' = cands
         /\ annexed' = anx
         /\ report' = rep
         /\ batch' = 1
         /\ IF anx = <<>>
            THEN /\ pc' = "done"
                 /\ reportFile' = write_report(reportFile, rep, cfg.dry_run)
                 /\ writeLog' = IF cfg.dry_run THEN writeLog
                                ELSE Append(writeLog, <<"report", "">>)
            ELSE /\ pc' = "mat_fetch"
                 /\ UNCHANGED <<reportFile, writeLog>>
    /\ UNCHANGED <<cfg, rerun, d, si, fi, tree, registered, manifest, descr,
                   participants, created_files, skipped_files, cache, destLog, srcLog,
                   resolutions, ok, to_unannex, matLog, lastOut, mapVars, envVars>>

\* One batch: the get command, its results and the size filter (lines 798-871).
Mat_Fetch ==
    /\ pc = "mat_fetch"
    /\ \E chunk \in {chunked(annexed, ChunkN)[batch]} :
       \E reply \in run_annex_json(Range(chunk), cfg.dry_run) :
       \E t \in {annex_get_effect(tree, reply)} :
       \E r \in {fetch_outcome(chunk, report.get_failures, t, cfg.dry_run, reply)} :
       \E f \in {size_filter(chunk, r.ok, r.get_failures, t, cfg.dry_run)} :
         /\ tree' = t
         /\ matLog' = IF cfg.dry_run THEN matLog
                      ELSE Append(matLog, [cmd |-> "get", paths |-> chunk])
         /\ lastOut' = [rc |-> reply.rc, recs |-> reply.recs]
         /\ ok' = r.ok
         /\ to_unannex' = f.to_unannex
         /\ report' = [report EXCEPT
               !.get_failures = f.get_failures,
               !.too_large_keep_annexed = @ \o f.too_large,
               !.parse_errors = @ \o Noise(reply),
               !.stderr_snippets = @ \o Noise(reply)]
         /\ pc' = after_fetch(f.to_unannex, batch, NumChunks)
         /\ batch' = IF pc' = "mat_fetch" THEN batch + 1 ELSE batch
    /\ UNCHANGED <<cfg, rerun, d, si, fi, registered, manifest, descr, participants,
                   created_files, skipped_files, cache, destLog, srcLog, writeLog,
                   resolutions, candidates, annexed, reportFile, mapVars, envVars>>

\* The unannex command of a batch and its results (lines 873-917).
Mat_Promote ==
    /\ pc = "mat_promote"
    /\ \E reply \in run_annex_json(Range(to_unannex), cfg.dry_run) :
       \E t \in {annex_unannex_effect(tree, reply)} :
       \E r \in {promote_outcome(to_unannex, report.unannex_failures, t,
                                 cfg.dry_run, reply)} :
         /\ tree' = t
         /\ matLog' = IF cfg.dry_run THEN matLog
                      ELSE Append(matLog, [cmd |-> "unannex", paths |-> to_unannex])
         /\ lastOut' = NoOutput
         /\ report' = [report EXCEPT
               !.unannex_failures = r.unannex_failures,
               !.converted_to_git = @ \o SortPaths(r.converted),
               !.parse_errors = @ \o Noise(reply),
               !.stderr_snippets = @ \o Noise(reply)]
         /\ IF batch < NumChunks
            THEN pc' = "mat_fetch" /\ batch' = batch + 1
            ELSE pc' = "mat_finish" /\ batch' = batch
    /\ UNCHANGED <<cfg, rerun, d, si, fi, registered, manifest, descr, participants,
                   created_files, skipped_files, cache, destLog, srcLog, writeLog,
                   resolutions, candidates, annexed, ok, to_unannex, reportFile, mapVars, envVars>>

\* After the loop: count what is still annexed and write the report
\* (lines 919-935).
Mat_Finish ==
    /\ pc = "mat_finish"
    /\ \E rep \in {IF cfg.dry_run THEN report
                   ELSE [report EXCEPT !.still_annexed_after =
                           << Cardinality({ i \in 1..Len(candidates) :
                                              IsSymlink(tree[candidates[i]]) }) >>]} :
         /\ report' = rep
         /\ reportFile' = write_report(reportFile, rep, cfg.dry_run)
    /\ writeLog' = IF cfg.dry_run THEN writeLog ELSE Append(writeLog, <<"report", "">>)
    /\ pc' = "done"
    /\ UNCHANGED <<cfg, rerun, d, si, fi, tree, registered, manifest, descr,
                   participants, created_files, skipped_files, cache, destLog, srcLog,
                   resolutions, candidates, annexed, batch, ok, to_unannex, matLog, lastOut,
                   mapVars, envVars>>

NextMat == Mat_Start \/ Mat_Fetch \/ Mat_Promote \/ Mat_Finish

NextBuild ==
    \/ \E c \in Configs : Main_Start(c)
    \/ Main_Clean
    \/ Build_Begin
    \/ Build_Subject
    \/ Build_Link
    \/ Build_Sidecar
    \/ Build_End
    \/ Main_WriteParticipants
    \/ Main_WriteDescription

vars == <<buildVars, matVars, mapVars, envVars>>

Init == InitBuild

Next == NextBuild

Spec == Init /\ [][Next]_vars

\* ------------------------------------- builds of a selection of datasets
\* --datasets: both datasets or one of them; builds that write, without
\* --clean and without sidecar generation.
SubsetConfigs ==
    [dry_run : {FALSE}, clean : {FALSE}, sidecars : {"none"}, overwrite : {FALSE},
     datasets : {{"abide1", "abide2"}, {"abide1"}, {"abide2"}},
     skip_build : {FALSE}, materialize : {FALSE}]

Main_StartSubset == \E c \in SubsetConfigs : Main_Start(c)

NextSubset ==
    \/ Main_StartSubset
    \/ Build_Begin
    \/ Build_Subject
    \/ Build_Link
    \/ Build_End
    \/ Main_WriteParticipants
    \/ Main_WriteDescription

SpecSubset == InitBuild /\ [][NextSubset]_vars

\* --------------------------------------------- the template cache alone
MaxLoads == 3

\* The templates asked for: of two sites, two that exist in one of them and
\* one that exists in neither.
CacheKeys ==
    {"SiteA", "SiteB"} \X
    { TName(Rest, <<>>, "bold"), TName(<<>>, <<>>, "T1w"), TName(Rest, AcqA, "bold") }

\* A build (not a dry run) about to resolve its first sidecar.
InitCache ==
    /\ InitMain(EmptyTree, {})
    /\ pc = "cache"
    /\ subjA = NoSubject /\ subjB = NoSubject /\ relIn = NoPath

\* One call of load_site_template_json; the caller keeps what it returns.
Cache_Load ==
    /\ pc = "cache" /\ Len(held) < MaxLoads
    /\ \E key \in CacheKeys : \E kind \in LoadKinds :
       \E r \in {load_site_template_json(cache, key[1], key[2], cfg.dry_run,
                                          read_ok(kind))} :
         /\ cache' = r.cache
         /\ srcLog' = srcLog \o r.log
         /\ held' = Append(held, [key |-> key, got |-> r.meta, meta |-> r.meta,
                                  own |-> r.own])
    /\ UNCHANGED <<cfg, pc, rerun, d, si, fi, tree, registered, manifest, descr,
                   participants, created_files, skipped_files, destLog, writeLog,
                   resolutions, matVars, subjA, subjB, idA, idB, relIn, relOut,
                   hdrIn, hdrOut, envVars>>

\* A caller changes the mapping it was given; a mapping that is not its
\* own is the dict of the cache.
Cache_CallerUpdate ==
    /\ pc = "cache"
    /\ \E i \in 1..Len(held) :
         /\ "z" \notin DOMAIN held[i].meta
         /\ held' = [held EXCEPT ![i].meta = Update(@, "z" :> Num(9))]
         /\ cache' = IF held[i].own THEN cache
                      ELSE [cache EXCEPT ![held[i].key] = Update(@, "z" :> Num(9))]
    /\ UNCHANGED <<cfg, pc, rerun, d, si, fi, tree, registered, manifest, descr,
                   participants, created_files, skipped_files, destLog, srcLog, writeLog,
                   resolutions, matVars, subjA, subjB, idA, idB, relIn, relOut,
                   hdrIn, hdrOut, envVars>>

SpecCache == InitCache /\ [][Cache_Load \/ Cache_CallerUpdate]_vars

\* ---------------------------------------------- the header reader alone
\* Unit bytes: no time unit, a spatial unit only, seconds, milliseconds and
\* microseconds with and without a spatial unit, codes that are none of
\* these, and a byte with a bit above the time unit.
UnitBytes == {0, 2, 8, 10, 16, 18, 24, 26, 32, 72}

\* The first bytes of the files read: headers written in either byte order
\* with a sizeof_hdr of 348, 540 or 0, each float of the model and each unit
\* byte, of which read(348) returns 0, 347 or 348 bytes.
HeaderInputs ==
    { [EncodeHeader(en, sz, bits, u) EXCEPT !.nbytes = n] :
        en \in {"<", ">"}, sz \in {348, 540, 0}, bits \in FloatBits,
        u \in UnitBytes, n \in {0, 347, 348} }

InitHeader ==
    /\ InitMain(EmptyTree, {})
    /\ pc = "header"
    /\ subjA = NoSubject /\ subjB = NoSubject /\ relIn = NoPath

\* nifti_tr_seconds on one file.
Header_Read ==
    /\ pc = "header"
    /\ \E h \in HeaderInputs :
         /\ hdrIn' = h
         /\ hdrOut' = nifti_tr_seconds(h)
    /\ UNCHANGED <<buildVars, matVars, subjA, subjB, idA, idB, relIn, relOut, held,
                   envVars>>

SpecHeader == InitHeader /\ [][Header_Read]_vars

\* ------------------------------------- one build, the resolver observed
\* The command lines that generate sidecars.
ResolveConfigs ==
    [dry_run : BOOLEAN, clean : {FALSE}, sidecars : {"template", "tr"},
     overwrite : BOOLEAN, datasets : {{"abide1", "abide2"}},
     skip_build : {FALSE}, materialize : {FALSE}]

Main_StartResolve == pc = "idle" /\ \E c \in ResolveConfigs : Main_Start(c)

\* The source store's answers to the resolution about to run are fixed.
Env_Choose ==
    /\ pc = "sidecar" /\ envIn = NoEnv
    /\ envIn' \in SourceEnvs
    /\ UNCHANGED <<buildVars, matVars, mapVars>>

\* The resolution under the answers chosen.
Resolve_Sidecar ==
    /\ envIn # NoEnv
    /\ SidecarStep(EnvClass(envIn))
    /\ envIn' = envIn

\* The resolution has returned: its answers are no longer of interest.
Env_Forget ==
    /\ pc # "sidecar" /\ envIn # NoEnv
    /\ envIn' = NoEnv
    /\ UNCHANGED <<buildVars, matVars, mapVars>>

NextResolve ==
    \/ Main_StartResolve
    \/ envIn = NoEnv /\ Build_Begin
    \/ envIn = NoEnv /\ Build_Subject
    \/ envIn = NoEnv /\ Build_Link
    \/ Env_Choose
    \/ Resolve_Sidecar
    \/ Env_Forget
    \/ envIn = NoEnv /\ Build_End
    \/ envIn = NoEnv /\ Main_WriteParticipants
    \/ envIn = NoEnv /\ Main_WriteDescription

SpecResolve == InitBuild /\ [][NextResolve]_vars

\* --------------------------------------------- the materializer on its own
\* The i-th metadata file of a tree given to the materializer, and an image.
MatPath(i) ==
    [top |-> participant_id(V1, 0, IntStr(i)), segs |-> <<"func">>,
     parts |-> <<Part("sub", new_id(V1, 0, IntStr(i))), Part("task", Rest)>>,
     suffix |-> "bold", ext |-> ".json"]

MatImage == [MatPath(1) EXCEPT !.ext = ".nii.gz"]

MatPaths == { MatPath(i) : i \in 1..MaxCand } \cup {MatImage}

\* Each metadata file is in Git or annexed; the last one, when annexed, may
\* be above max_mb; the image is annexed.  No annexed content is present
\* locally.
MatTrees ==
    { t \in [MatPaths -> { EFile(NoMeta), ELink("KEY-json", NoMeta),
                           [ELink("KEY-json", NoMeta) EXCEPT !.big = TRUE],
                           ELink("KEY-bold", NoMeta) }] :
        /\ t[MatImage] = ELink("KEY-bold", NoMeta)
        /\ \A i \in 1..MaxCand :
              /\ t[MatPath(i)] # ELink("KEY-bold", NoMeta)
              /\ t[MatPath(i)].big => i = MaxCand }

\* --skip-build --materialize-metadata, with or without --dry-run.
MatConfigs ==
    [dry_run : BOOLEAN, clean : {FALSE}, sidecars : {"none"},
     overwrite : {FALSE}, datasets : {{"abide1", "abide2"}},
     skip_build : {TRUE}, materialize : {TRUE}]

InitMat ==
    /\ \E t \in MatTrees : InitMain(t, {})
    /\ pc = "idle"
    /\ subjA = NoSubject /\ subjB = NoSubject /\ relIn = NoPath

Main_StartMat == pc = "idle" /\ \E c \in MatConfigs : Main_Start(c)

SpecMat == InitMat /\ [][Main_StartMat \/ NextMat]_vars

\* ------------------------------------------------- one run of any kind
\* Every command line of the modelled options.
AllConfigs ==
    [dry_run : BOOLEAN, clean : BOOLEAN, sidecars : SidecarModes,
     overwrite : BOOLEAN, datasets : {{"abide1", "abide2"}},
     skip_build : BOOLEAN, materialize : BOOLEAN]

\* The tree a completed build without sidecar generation leaves: every
\* source file linked under its key, its URLs registered.
LinkedTree ==
    [p \in DestPaths |->
        IF \E f \in SrcFiles : DestOf(f) = p
        THEN LET f == CHOOSE g \in SrcFiles : DestOf(g) = p
             IN  ELink(SrcKey(f.site, f.rel), KeyMeta(f))
        ELSE ENone]

LinkedUrls ==
    UNION { { <<SrcKey(f.site, f.rel), u>> : u \in Range(SrcWhereisUrls(f.site, f.rel)) } :
            f \in SrcFiles }

\* A linked tree in which the per-file BOLD sidecar has been converted to a
\* regular file and a directory sits where the T1w image is to be linked.
CollidingTree ==
    [p \in DestPaths |->
        IF \E f \in SrcFiles : DestOf(f) = p /\ is_bold_json(f.rel)
        THEN EFile(LinkedTree[p].meta)
        ELSE IF \E f \in SrcFiles : DestOf(f) = p /\ is_t1w_nifti(f.rel)
        THEN EDir
        ELSE LinkedTree[p]]

\* A linked tree whose BOLD images were linked when the source store held
\* other content for them: the links carry the key of that time.
StaleTree ==
    [p \in DestPaths |->
        IF \E f \in SrcFiles : DestOf(f) = p /\ is_bold_nifti(f.rel)
        THEN ELink("KEY-old", NoMeta)
        ELSE LinkedTree[p]]

InitAll ==
    /\ \/ InitMain(EmptyTree, {})
       \/ InitMain(LinkedTree, LinkedUrls)
       \/ InitMain(CollidingTree, LinkedUrls)
       \/ InitMain(StaleTree, LinkedUrls)
    /\ pc = "idle"
    /\ subjA = NoSubject /\ subjB = NoSubject /\ relIn = NoPath

Main_StartAll == pc = "idle" /\ \E c \in AllConfigs : Main_Start(c)

NextAll ==
    \/ Main_StartAll
    \/ Main_Clean
    \/ Build_Begin
    \/ Build_Subject
    \/ Build_Link
    \/ Build_Sidecar
    \/ Build_End
    \/ Main_WriteParticipants
    \/ Main_WriteDescription
    \/ NextMat

SpecAll == InitAll /\ [][NextAll]_vars

\* ------------------------------------------------ the entity mapper alone
IdChars == {"s", "x", "1"}

RECURSIVE StringsUpTo(_)
\* The strings over IdChars of at most n characters.
StringsUpTo(n) ==
    IF n = 0 THEN {<<>>}
    ELSE StringsUpTo(n - 1)
           \cup { Append(w, c) : w \in { v \in StringsUpTo(n - 1) : Len(v) = n - 1 },
                                 c \in IdChars }

\* The source subjects the mapper is applied to: the dataset's version tag,
\* the site's index, the original id.
MapSubjects ==
    [tag : {V1, V2}, site_idx : 0..MaxSiteIndex, orig_id : StringsUpTo(MaxIdLen)]

InitMap ==
    /\ InitMain(EmptyTree, {})
    /\ pc = "map"
    /\ subjA \in MapSubjects /\ subjB \in MapSubjects
    /\ relIn = NoPath

\* build_abide's naming of two subjects (lines 535-540).
Build_MapSubjects ==
    /\ pc = "map"
    /\ idA' = participant_id(subjA.tag, subjA.site_idx, subjA.orig_id)
    /\ idB' = participant_id(subjB.tag, subjB.site_idx, subjB.orig_id)
    /\ pc' = "mapped"
    /\ UNCHANGED <<cfg, rerun, d, si, fi, tree, registered, manifest, descr,
                   participants, created_files, skipped_files, cache, destLog, srcLog,
                   writeLog, resolutions, matVars, subjA, subjB, relIn, relOut,
                   held, hdrIn, hdrOut, envVars>>

SpecMap == InitMap /\ [][Build_MapSubjects]_vars

\* -------------------------------------------------- the path mapper alone
\* The subjects whose files are mapped: both datasets, a one-digit and a
\* two-digit site index.
PathSubjects == [tag : {V1, V2}, site_idx : {0, 10}, orig_id : {Orig1, Orig3}]

\* Files of the directory of subject orig: at the top, in a data type
\* directory or below a session directory; named sub-<orig>_..., with or
\* without a ses- part, sub-<orig>a_..., or not after the subject at all.
PathInputs(orig) ==
    { Rel(segs, parts, sf.suffix, sf.ext) :
        segs \in {<<>>, <<"func">>, <<"ses-2", "func">>},
        parts \in { <<Part("sub", orig)>>,
                    <<Part("sub", orig), Part("task", Rest)>>,
                    <<Part("sub", orig), Part("ses", <<"2">>)>>,
                    <<Part("sub", orig), Part("ses", <<"2">>), Part("task", Rest)>>,
                    <<Part("sub", orig \o <<"a">>), Part("task", Rest)>>,
                    <<Part("task", Rest)>>,
                    <<>> },
        sf \in { [suffix |-> "bold", ext |-> ".nii.gz"],
                 [suffix |-> "scans", ext |-> ".tsv"] } }

InitPath ==
    /\ InitMain(EmptyTree, {})
    /\ pc = "path"
    /\ subjA \in PathSubjects /\ subjB = NoSubject
    /\ relIn \in PathInputs(subjA.orig_id)

\* build_abide's mapping of one source file (lines 539-557).
Build_MapPath ==
    /\ pc = "path"
    /\ \E new \in {new_id(subjA.tag, subjA.site_idx, subjA.orig_id)} :
       \E dest_rel \in {IF subjA.tag = V1
                        THEN map_abide1_relpath(relIn, subjA.orig_id, new)
                        ELSE map_abide2_relpath(relIn, subjA.orig_id, new)} :
         relOut' = [top |-> participant_id(subjA.tag, subjA.site_idx, subjA.orig_id),
                    segs |-> dest_rel.segs, parts |-> dest_rel.parts,
                    suffix |-> dest_rel.suffix, ext |-> dest_rel.ext]
    /\ pc' = "pathed"
    /\ UNCHANGED <<cfg, rerun, d, si, fi, tree, registered, manifest, descr,
                   participants, created_files, skipped_files, cache, destLog, srcLog,
                   writeLog, resolutions, matVars, subjA, subjB, idA, idB, relIn,
                   held, hdrIn, hdrOut, envVars>>

SpecPath == InitPath /\ [][Build_MapPath]_vars

\* ------------------------------------------ the files of one subject mapped
\* How many files of a subject directory are mapped.
MaxFiles == 2

\* The files a subject directory can hold: those of PathInputs, and files
\* that carry the part _ses-1 in their name already.
FileInputs(orig) ==
    PathInputs(orig) \cup
    { Rel(segs, parts, "bold", ".nii.gz") :
        segs \in {<<>>, <<"func">>},
        parts \in { <<Part("sub", orig), Part("ses", <<"1">>)>>,
                    <<Part("sub", orig), Part("ses", <<"1">>), Part("task", Rest)>> } }

InitFiles ==
    /\ InitMain(EmptyTree, {})
    /\ pc = "files"
    /\ subjA \in PathSubjects /\ subjB = NoSubject
    /\ relIn = NoPath

\* One iteration of build_abide's file loop up to the existence test (lines
\* 549-576): the destination of the next file of the subject directory, and
\* whether an earlier file of the loop has taken it.
Files_Map ==
    /\ pc = "files" /\ Len(held) < MaxFiles
    /\ \E rel \in FileInputs(subjA.orig_id) \ { held[i].rel : i \in 1..Len(held) } :
       \E new \in {new_id(subjA.tag, subjA.site_idx, subjA.orig_id)} :
       \E dest_rel \in {IF subjA.tag = V1
                        THEN map_abide1_relpath(rel, subjA.orig_id, new)
                        ELSE map_abide2_relpath(rel, subjA.orig_id, new)} :
       \E dest \in {[top |-> participant_id(subjA.tag, subjA.site_idx, subjA.orig_id),
                      segs |-> dest_rel.segs, parts |-> dest_rel.parts,
                      suffix |-> dest_rel.suffix, ext |-> dest_rel.ext]} :
         /\ relIn' = rel
         /\ relOut' = dest
         /\ held' = Append(held, [rel |-> rel, dest |-> dest,
                                  taken |-> \E i \in 1..Len(held) : held[i].dest = dest])
    /\ UNCHANGED <<buildVars, matVars, subjA, subjB, idA, idB, hdrIn, hdrOut, envVars>>

SpecFiles == InitFiles /\ [][Files_Map]_vars

\* =================================================== properties: the build
HasCmd(log, cmd) == \E i \in 1..Len(log) : log[i][1] = cmd

\* A second run with the arguments of the completed run before it, without
\* --overwrite-sidecars and without --clean.
SecondRun == rerun /\ ~cfg.overwrite /\ ~cfg.clean

\* The sidecars this run wrote over an existing file.
Rewrites == { i \in 1..Len(resolutions) : LExists(resolutions[i].before) }

\* C1 (as stated): the second of two identical runs without overwrite
\* installs no new content reference and rewrites no sidecar, in every
\* sidecar mode and whatever fetch or extraction failures the first run had.
C1_SecondRunRewritesNothing ==
    SecondRun => ~HasCmd(destLog, "fromkey") /\ Rewrites = {}

\* C1 (amended): the second run installs no new content reference, and it
\* rewrites an existing sidecar only in derive-duration mode and only when
\* that sidecar is a BOLD sidecar holding no RepetitionTime (the first run
\* could not obtain the duration).
C1_SecondRunRewritesOnlyMissingDuration ==
    SecondRun =>
      /\ ~HasCmd(destLog, "fromkey")
      /\ \A i \in Rewrites :
           /\ cfg.sidecars = "tr"
           /\ resolutions[i].path.suffix = "bold"
           /\ "RepetitionTime" \notin DOMAIN resolutions[i].before.meta

\* A completed second run in derive-duration mode that skipped the linked
\* files and rewrote the BOLD sidecar left without a duration.
C1_Witness ==
    /\ SecondRun /\ ~cfg.dry_run /\ pc = "done"
    /\ skipped_files > 0 /\ Rewrites # {}

\* The current file is a per-file sidecar that build_abide passes over
\* because sidecars are generated (lines 563-566).
PassedOver == do_sidecars /\ (is_bold_json(CurFile.rel) \/ is_t1w_json(CurFile.rel))

\* The file loop is at a file whose destination exists as a link or a file.
DestSatisfied == pc = "link" /\ tree[DestOf(CurFile)].t \in {"link", "file"}

\* C2 (as stated): for every enumerated source file whose destination
\* exists, the iteration queries nothing, installs and registers nothing,
\* leaves the destination entry as it is and adds one to the skipped counter.
C2_SatisfiedCountsSkipped ==
    [][DestSatisfied =>
         /\ UNCHANGED <<srcLog, destLog, registered, tree>>
         /\ skipped_files' = skipped_files + 1]_vars

\* C2 (amended): the same, except that a per-file BOLD/T1w sidecar passed
\* over because sidecars are generated is not counted as skipped.
C2_SatisfiedUntouched ==
    [][DestSatisfied =>
         /\ UNCHANGED <<srcLog, destLog, registered, tree>>
         /\ skipped_files' = skipped_files + (IF PassedOver THEN 0 ELSE 1)]_vars

BoldImage == CHOOSE f \in SrcFiles : is_bold_nifti(f.rel)
BoldSidecarPath == sidecar_json_path(DestOf(BoldImage))

\* A second template-mode run past the first subject's image: the image
\* was counted as skipped, the source sidecar before it (whose destination
\* is the generated sidecar) was not.
C2_Witness ==
    /\ SecondRun /\ ~cfg.dry_run /\ cfg.sidecars = "template"
    /\ pc = "sidecar" /\ d = 1 /\ skipped_files = 1
    /\ tree[BoldSidecarPath].t = "file"

\* The position of the first occurrence of u in urls.
FirstIndex(urls, u) == CHOOSE i \in 1..Len(urls) :
                          urls[i] = u /\ \A j \in 1..(i - 1) : urls[j] # u

\* C3: when a non-dry-run build links a new file, the destination entry is
\* a link under the key the source store reports for that file, and the
\* destination commands of that iteration are one fromkey of that key
\* followed by one registerurl per distinct reported URL, in reported order.
C3_LinkReusesKeyAndUrls ==
    [][(pc = "link" /\ ~cfg.dry_run /\ created_files' = created_files + 1) =>
         LET f == CurFile
             key == SrcKey(f.site, f.rel)
             urls == SrcWhereisUrls(f.site, f.rel)
             new == SubSeq(destLog', Len(destLog) + 1, Len(destLog'))
             regs == Tail(new)
         IN  /\ tree'[DestOf(f)].t = "link"
             /\ tree'[DestOf(f)].key = key
             /\ new # <<>>
             /\ new[1][1] = "fromkey" /\ new[1][2] = key /\ new[1][3] = DestOf(f)
             /\ \A i \in 1..Len(regs) : regs[i][1] = "registerurl" /\ regs[i][2] = key
             /\ { regs[i][3] : i \in 1..Len(regs) } = Range(urls)
             /\ \A i, j \in 1..Len(regs) :
                  i < j => FirstIndex(urls, regs[i][3]) < FirstIndex(urls, regs[j][3])
             /\ \A u \in Range(urls) : <<key, u>> \in registered']_vars

\* The BOLD image, reported at url1, url2, url1, has been linked.
C3_Witness ==
    /\ ~cfg.dry_run /\ pc = "done" /\ created_files > 0
    /\ tree[DestOf(BoldImage)].t = "link"
    /\ \E i \in 1..Len(destLog) :
         destLog[i][1] = "registerurl" /\ destLog[i][3] = "url2"

\* The source file a whereis command of the source log was about.
FileOf(entry) == CHOOSE f \in SrcFiles : f.site = entry[2] /\ f.rel = entry[3]

\* The i-th source command is a whereis that gave no key: no fromkey
\* followed for its file.
WhereisFailed(i) ==
    /\ srcLog[i][1] = "whereis"
    /\ ~\E j \in 1..Len(destLog) :
          destLog[j][1] = "fromkey" /\ destLog[j][3] = DestOf(FileOf(srcLog[i]))

KeyFailure == \E i \in 1..Len(srcLog) : WhereisFailed(i)

\* C4: a source file without a content key is fatal for that file only:
\* the build goes on with the other files and the manifest is written.
\* The code raises RuntimeError at line 203 and nothing catches it, so this
\* does not hold of it.
C4_BuildContinues ==
    KeyFailure =>
      /\ pc # "aborted"
      /\ pc = "done" => HasCmd(writeLog, "participants.tsv")

\* What the code does on a key failure: the whole run ends, the failed
\* query is its last command, the file loop stays at that file (no later
\* file is linked) and neither the manifest nor the descriptor is written.
KeyFailureAborts ==
    KeyFailure =>
      /\ pc = "aborted"
      /\ WhereisFailed(Len(srcLog))
      /\ FileOf(srcLog[Len(srcLog)]) = CurFile
      /\ ~HasCmd(writeLog, "participants.tsv")
      /\ ~HasCmd(writeLog, "dataset_description.json")

\* The key query failed after an earlier file had been linked.
KeyFailureAfterLink == KeyFailure /\ ~cfg.dry_run /\ created_files > 0

\* The sidecar the resolver is called for.
CurSidecar == tree[sidecar_json_path(DestOf(CurFile))]

\* C5: when the sidecar of the current image exists with a RepetitionTime
\* and overwrite is off, the resolver runs no source command (no get, no
\* drop) and leaves the tree, hence that sidecar, as it is.
C5_ResolvedSidecarSkipped ==
    [][(pc = "sidecar" /\ ~cfg.overwrite /\ Exists(CurSidecar)
          /\ "RepetitionTime" \in DOMAIN CurSidecar.meta) =>
         UNCHANGED <<srcLog, tree, cache>>]_vars

\* The first dataset done without a source command, the BOLD sidecar still
\* at the 3 s an earlier run took from the image header while the coarse
\* template says 2 s.
C5_Witness ==
    /\ ~cfg.dry_run /\ ~cfg.overwrite /\ do_sidecars
    /\ pc = "end" /\ d = 1 /\ srcLog = <<>>
    /\ "RepetitionTime" \in DOMAIN tree[BoldSidecarPath].meta
    /\ tree[BoldSidecarPath].meta["RepetitionTime"] = Num(Sec(3))
    /\ TemplateContent("SiteA", TName(Rest, <<>>, "bold"))["RepetitionTime"] = Num(Sec(2))

Derived == {"RepetitionTime", "TaskName"}

\* The value of a field by precedence: per-file, finer template, coarse.
MostSpecific(r, fld) ==
    IF fld \in DOMAIN r.src THEN r.src[fld]
    ELSE IF fld \in DOMAIN r.finer THEN r.finer[fld] ELSE r.coarse[fld]

\* The three objects of the worked example were all loaded.
ExampleLoaded(r) ==
    /\ DOMAIN r.coarse \ Derived = {"a", "b"}
    /\ r.coarse["a"] = Num(1) /\ r.coarse["b"] = Num(2)
    /\ DOMAIN r.finer = {"b", "c"}
    /\ r.finer["b"] = Num(3) /\ r.finer["c"] = Num(4)
    /\ DOMAIN r.src = {"c", "d"}
    /\ r.src["c"] = Num(5) /\ r.src["d"] = Num(6)

\* C6: a written sidecar holds, apart from RepetitionTime and TaskName,
\* exactly the fields of the three loaded objects, each with the value of
\* the most specific object defining it (per-file over finer template over
\* coarse template); {a:1,b:2}, {b:3,c:4}, {c:5,d:6} give {a:1,b:3,c:5,d:6}.
C6_MergePrecedence ==
    \A i \in 1..Len(resolutions) :
      LET r == resolutions[i]
      IN  /\ DOMAIN r.meta \ Derived
               = (DOMAIN r.coarse \cup DOMAIN r.finer \cup DOMAIN r.src) \ Derived
          /\ \A fld \in DOMAIN r.meta \ Derived : r.meta[fld] = MostSpecific(r, fld)
          /\ ExampleLoaded(r) =>
               /\ DOMAIN r.meta \ Derived = {"a", "b", "c", "d"}
               /\ r.meta["a"] = Num(1) /\ r.meta["b"] = Num(3)
               /\ r.meta["c"] = Num(5) /\ r.meta["d"] = Num(6)

\* A sidecar written from the three objects of the worked example.
C6_Witness ==
    /\ resolutions # <<>>
    /\ ExampleLoaded(resolutions[1])
    /\ tree[resolutions[1].path].meta = resolutions[1].meta

\* ============================================ properties: the materializer
\* The paths of the unannex commands run so far.
Promoted ==
    UNION { Range(matLog[i].paths) : i \in { j \in 1..Len(matLog) : matLog[j].cmd = "unannex" } }

\* C7: in a materialization that is not a dry run, an annexed candidate
\* above max_mb is in no unannex request and not in converted_to_git, and
\* stays a link; once it counts as fetched and its content is there, it is
\* in too_large_keep_annexed.
C7_TooLargeKeptAnnexed ==
    ~cfg.dry_run =>
      \A p \in Range(annexed) :
        tree[p].big =>
          /\ p \notin Promoted
          /\ p \notin Range(to_unannex)
          /\ p \notin Range(report.converted_to_git)
          /\ IsSymlink(tree[p])
          /\ (p \in ok /\ Exists(tree[p])) => p \in Range(report.too_large_keep_annexed)
          /\ (pc = "done" /\ Exists(tree[p]) /\ p \notin DOMAIN report.get_failures)
               => p \in Range(report.too_large_keep_annexed)

\* A finished pass that kept a fetched file above max_mb annexed and
\* converted another file.
C7_Witness ==
    /\ ~cfg.dry_run /\ pc = "done"
    /\ \E p \in Range(report.too_large_keep_annexed) :
         tree[p].big /\ Exists(tree[p]) /\ IsSymlink(tree[p])
    /\ \E q \in Range(report.converted_to_git) : tree[q].t = "file"

\* The get commands run so far, and the number of batches whose get must
\* have been run at this point of the pass.
GetsIssued == SelectSeq(matLog, LAMBDA e : e.cmd = "get")

BatchesReached ==
    IF pc = "mat_fetch" THEN batch - 1
    ELSE IF pc = "mat_promote" THEN batch ELSE NumChunks

HasOutcome(p) ==
    \/ p \in Range(report.converted_to_git)
    \/ p \in Range(report.too_large_keep_annexed)
    \/ p \in DOMAIN report.get_failures
    \/ p \in DOMAIN report.unannex_failures

\* C8: whatever a batch's get or unannex answers (a non-zero exit without
\* records included), the pass is not abandoned: the get commands run so
\* far are those of batches 1, 2, ... in order, one per batch reached, so
\* that all N have run when the pass is done; then every annexed candidate
\* has an outcome in the report, and the report file holds the report.
\* Until then the pass always has a next step.
C8_BatchFailuresIsolated ==
    (~cfg.dry_run /\ cfg.materialize) =>
      /\ pc # "aborted"
      /\ pc \in {"mat_start", "mat_fetch", "mat_promote", "mat_finish"} => ENABLED NextMat
      /\ Len(GetsIssued) = BatchesReached
      /\ \A i \in 1..Len(GetsIssued) : GetsIssued[i].paths = chunked(annexed, ChunkN)[i]
      /\ pc = "done" =>
           /\ reportFile.written /\ reportFile.content = report
           /\ \A p \in Range(annexed) : HasOutcome(p)

\* A finished pass of two batches: the get of the first failed entirely,
\* a file of the second was converted.
C8_Witness ==
    /\ ~cfg.dry_run /\ pc = "done" /\ NumChunks = 2
    /\ \A p \in Range(chunked(annexed, ChunkN)[1]) :
         /\ p \in DOMAIN report.get_failures
         /\ report.get_failures[p] = "get returned rc (no JSON output)"
    /\ \E q \in Range(chunked(annexed, ChunkN)[2]) :
         q \in Range(report.converted_to_git) /\ tree[q].t = "file"
    /\ reportFile.written

\* ================================================= properties: dry-run
\* C9: no step of a dry run changes the destination tree, the destination
\* store, the manifest, the descriptor or the report file, and none runs a
\* command in the source sites or the destination store or writes or
\* deletes a file.
C9_DryRunMutatesNothing ==
    [][(cfg.dry_run /\ pc \notin {"idle", "done", "aborted"}) =>
         UNCHANGED <<tree, registered, manifest, descr, reportFile,
                     destLog, srcLog, writeLog, matLog>>]_vars

\* A finished dry run with --clean, duration sidecars and materialization
\* on a tree of links: it went through every operation.
C9_Witness ==
    /\ cfg.dry_run /\ cfg.clean /\ cfg.materialize /\ cfg.sidecars = "tr"
    /\ pc = "done" /\ tree = LinkedTree
    /\ skipped_files > 0 /\ Len(participants) = 3
    /\ report.converted_to_git # <<>>
    /\ ~reportFile.written /\ ~manifest.written

\* ======================================== properties: the entity mapper
\* C10: two different source subjects (dataset tag, site index, original
\* id) never get the same participant id.
C10_MapperInjective ==
    (pc = "mapped" /\ subjA # subjB) => idA # idB

\* Site 1 with id "1x" and site 11 with id "x" have been named.
C10_Witness ==
    /\ pc = "mapped"
    /\ subjA = [tag |-> V1, site_idx |-> 1, orig_id |-> <<"1", "x">>]
    /\ subjB = [tag |-> V1, site_idx |-> 11, orig_id |-> <<"x">>]
    /\ idA # idB

\* ================================================= properties: the manifest
\* The rows of participants.tsv that stand for subject j of dataset ds.
RowsOf(ds, j) ==
    { i \in 1..Len(manifest.rows) :
        /\ manifest.rows[i].source_dataset = ds
        /\ manifest.rows[i].source_site = Subjects(ds)[j].site
        /\ manifest.rows[i].source_subject_id = Subjects(ds)[j].orig }

\* The number of subjects of the datasets ds[1..n].
RECURSIVE NumSubjects(_, _)
NumSubjects(ds, n) ==
    IF n = 0 THEN 0
    ELSE NumSubjects(ds, n - 1)
           + (IF ds[n] \in cfg.datasets THEN Len(Subjects(ds[n])) ELSE 0)

\* C11: once a run has written participants.tsv, its rows are in ascending
\* order of participant_id whatever the order of the appends, there is
\* exactly one row for each subject of each dataset the run built and no
\* other row, the row carries the subject's participant id, and the rows
\* of earlier runs are gone (the file is replaced, not appended to).
C11_ManifestSortedOnePerSubject ==
    HasCmd(writeLog, "participants.tsv") =>
      /\ manifest.written
      /\ \A i, j \in 1..Len(manifest.rows) :
            i < j => ~StrLess(manifest.rows[j].participant_id,
                              manifest.rows[i].participant_id)
      /\ Len(manifest.rows) = NumSubjects(DatasetNames, Len(DatasetNames))
      /\ \A n \in 1..Len(DatasetNames) :
            DatasetNames[n] \in cfg.datasets =>
              \A j \in 1..Len(Subjects(DatasetNames[n])) :
                 /\ Cardinality(RowsOf(DatasetNames[n], j)) = 1
                 /\ \A i \in RowsOf(DatasetNames[n], j) :
                      manifest.rows[i].participant_id =
                        participant_id(version_tag(DatasetNames[n]),
                                       site_index(DatasetNames[n],
                                                  Subjects(DatasetNames[n])[j].site),
                                       Subjects(DatasetNames[n])[j].orig)

\* A second run has replaced the manifest of the first; the subject of site
\* index 10 was appended after the subject of site index 2 and is written
\* before it.
C11_Witness ==
    /\ rerun /\ ~cfg.dry_run /\ pc = "done"
    /\ HasCmd(writeLog, "participants.tsv")
    /\ Len(participants) = 3 /\ Len(manifest.rows) = 3
    /\ participants[3] = manifest.rows[2]
    /\ participants[2] = manifest.rows[3]

\* ====================================== properties: destination collisions
\* The file loop is at a file the linker handles whose destination exists
\* as an entry of kind t.
DestIs(t) == pc = "link" /\ ~PassedOver /\ tree[DestOf(CurFile)].t = t

SesParts(parts) == { i \in 2..Len(parts) : parts[i].ent = "ses" }

MappedA == pc = "pathed" /\ subjA.tag = V1
MappedB == pc = "pathed" /\ subjA.tag = V2

NewIdA == new_id(subjA.tag, subjA.site_idx, subjA.orig_id)

\* The destination file name is sub-<new id>_ses-1..., and that is its
\* only ses- part.
CarriesSes1 ==
    /\ Len(relOut.parts) >= 2
    /\ relOut.parts[1] = Part("sub", NewIdA)
    /\ relOut.parts[2].ent = "ses" /\ IsPrefix(<<"1">>, relOut.parts[2].val)
    /\ SesParts(relOut.parts) = {2}

\* Dataset kind B: the same directories, the same number of name parts in
\* the same order, each part unchanged unless it is the subject part.
OnlyIdChanged ==
    /\ relOut.segs = relIn.segs
    /\ relOut.suffix = relIn.suffix /\ relOut.ext = relIn.ext
    /\ Len(relOut.parts) = Len(relIn.parts)
    /\ \A i \in 1..Len(relIn.parts) :
         IF relIn.parts[i].ent = "sub" /\ IsPrefix(subjA.orig_id, relIn.parts[i].val)
         THEN /\ relOut.parts[i].ent = "sub"
              /\ IsPrefix(NewIdA, relOut.parts[i].val)
         ELSE relOut.parts[i] = relIn.parts[i]

\* C13 (as stated): for abide1 every destination path begins with ses-1/,
\* every file name without a ses- part gets one right after sub-<id>, and
\* a file name with a ses- part keeps exactly that one; for abide2 only the
\* identifier changes.
C13_SesInjected ==
    /\ MappedA =>
         /\ relOut.segs # <<>> /\ relOut.segs[1] = "ses-1"
         /\ Tail(relOut.segs) = relIn.segs
         /\ SesParts(relIn.parts) = {} => CarriesSes1
         /\ SesParts(relIn.parts) # {} =>
               Cardinality(SesParts(relOut.parts)) = Cardinality(SesParts(relIn.parts))
    /\ MappedB => OnlyIdChanged

\* C13 (amended): the same, the file names that get the ses- part being
\* those that begin with sub-<original id>; a file name that does not is
\* left without one.
C13_SesInjectedAfterSubject ==
    /\ MappedA =>
         /\ relOut.segs # <<>> /\ relOut.segs[1] = "ses-1"
         /\ Tail(relOut.segs) = relIn.segs
         /\ (SesParts(relIn.parts) = {} /\ relIn.parts # <<>>
                /\ relIn.parts[1].ent = "sub"
                /\ IsPrefix(subjA.orig_id, relIn.parts[1].val)) => CarriesSes1
         /\ (SesParts(relIn.parts) = {} /\ (relIn.parts = <<>>
                \/ relIn.parts[1].ent # "sub"
                \/ ~IsPrefix(subjA.orig_id, relIn.parts[1].val))) =>
               relOut.parts = relIn.parts
         /\ SesParts(relIn.parts) # {} =>
               Cardinality(SesParts(relOut.parts)) = Cardinality(SesParts(relIn.parts))
    /\ MappedB => OnlyIdChanged

\* func/sub-51_task-rest_bold.nii.gz of abide1, site 0, has been mapped to
\* sub-v1s0x51/ses-1/func/sub-v1s0x51_ses-1_task-rest_bold.nii.gz.
C13_Witness ==
    /\ MappedA /\ subjA.site_idx = 0 /\ subjA.orig_id = Orig1
    /\ relIn = Rel(<<"func">>, <<Part("sub", Orig1), Part("task", Rest)>>, "bold", ".nii.gz")
    /\ relOut.segs = <<"ses-1", "func">>
    /\ relOut.parts = <<Part("sub", NewIdA), Part("ses", <<"1">>), Part("task", Rest)>>

\* ================================== properties: the materialization report
\* The candidates that are annex links now.
StillAnnexed == { i \in 1..Len(candidates) : IsSymlink(tree[candidates[i]]) }

ReportWrites == { i \in 1..Len(writeLog) : writeLog[i][1] = "report" }

\* C14: a report written by a pass was written once, when the pass ended,
\* and its still_annexed_after is the number of candidates that are annex
\* links then, also when no candidate was annexed.  The code returns at
\* line 795 after writing a report without that key, so this does not hold
\* of it.
C14_ReportComplete ==
    ReportWrites # {} =>
      /\ pc = "done" /\ Cardinality(ReportWrites) = 1
      /\ reportFile.written
      /\ reportFile.content.total_candidates = Len(candidates)
      /\ reportFile.content.still_annexed_after = << Cardinality(StillAnnexed) >>

\* What the code does: the same when a candidate was annexed; with none,
\* the report is written without still_annexed_after.
ReportCompleteUnlessNoneAnnexed ==
    ReportWrites # {} =>
      /\ pc = "done" /\ Cardinality(ReportWrites) = 1
      /\ reportFile.written
      /\ reportFile.content.total_candidates = Len(candidates)
      /\ reportFile.content.still_annexed_after =
            IF annexed = <<>> THEN <<>> ELSE << Cardinality(StillAnnexed) >>

\* A pass over a tree without annexed candidates has written its report.
ReportOfNoneAnnexed ==
    /\ ReportWrites # {} /\ candidates # <<>> /\ annexed = <<>>

\* ============================================ properties: fetch results
\* The get of the current batch has run (not a dry run) and its batch is
\* not over.
AfterGet == ~cfg.dry_run /\ lastOut # NoOutput

LastPaths == Range(matLog[Len(matLog)].paths)

\* The output of the get holds no success and no failure record of p.
Silent(p) == lastOut.recs[p] \in {"none", "nosuccess"}

\* The get exited non-zero and printed no record.
EmptyFailure == lastOut.rc # 0 /\ \A q \in LastPaths : lastOut.recs[q] = "none"

TooLarge == Range(report.too_large_keep_annexed)

\* p was taken as fetched: it went to the size check, and from there to
\* the promote request or to too_large_keep_annexed.
ImplicitSuccess(p) ==
    /\ p \in ok /\ p \notin DOMAIN report.get_failures
    /\ p \in Range(to_unannex) \/ p \in TooLarge

\* p was recorded as a fetch failure with the reason msg.
FetchFailure(p, msg) ==
    /\ p \notin ok /\ p \notin Range(to_unannex)
    /\ p \in DOMAIN report.get_failures /\ report.get_failures[p] = msg

\* C15 (as stated): after the get of a batch, every requested path without
\* a success or failure record is an implicit success when its content is
\* present and a fetch failure with a generic reason when it is absent,
\* whatever the exit code of the get and whether or not it printed records.
C15_ImplicitSuccess ==
    AfterGet =>
      \A p \in LastPaths :
         Silent(p) =>
           IF Exists(tree[p]) THEN ImplicitSuccess(p)
           ELSE FetchFailure(p, "content not present after get (no JSON record)")

\* C15 (amended): the same, unless the get exited non-zero and printed no
\* record at all: then every requested path is a fetch failure, whether
\* its content is present or not.
C15_ImplicitSuccessUnlessEmptyFailure ==
    AfterGet =>
      \A p \in LastPaths :
         IF EmptyFailure THEN FetchFailure(p, "get returned rc (no JSON output)")
         ELSE Silent(p) =>
                IF Exists(tree[p]) THEN ImplicitSuccess(p)
                ELSE FetchFailure(p, "content not present after get (no JSON record)")

\* A get that exited non-zero with a failure record for one path and no
\* record for another whose content is present: that one is promoted.
C15_Witness ==
    /\ AfterGet /\ lastOut.rc # 0 /\ pc = "mat_promote"
    /\ \E p, q \in LastPaths :
         /\ lastOut.recs[p] = "none" /\ Exists(tree[p]) /\ p \in Range(to_unannex)
         /\ lastOut.recs[q] = "fail" /\ q \in DOMAIN report.get_failures

\* ========================================== properties: promote results
\* C16: a path listed in converted_to_git by a pass that ran commands is no
\* longer an annex link.  The code lists every path with a success record
\* in the unannex output without looking at it (lines 893-894), so this
\* does not hold of it.
C16_ConvertedNotAnnexed ==
    ~cfg.dry_run =>
      \A i \in 1..Len(report.converted_to_git) :
         ~IsSymlink(tree[report.converted_to_git[i]])

\* ===================================== properties: candidate life cycle
Requests(cmd, p) ==
    { i \in 1..Len(matLog) : matLog[i].cmd = cmd /\ p \in Range(matLog[i].paths) }

\* Candidates in Git when the pass began are in no request.
GitBackedNeverRequested ==
    \A i \in 1..Len(matLog) : Range(matLog[i].paths) \subseteq Range(annexed)

\* An annexed candidate is in at most one get, of at most ChunkN paths, and
\* in exactly one when the pass is over.
FetchedOnce ==
    /\ \A i \in 1..Len(matLog) : Len(matLog[i].paths) <= ChunkN
    /\ \A p \in Range(annexed) :
         /\ Cardinality(Requests("get", p)) <= 1
         /\ (pc = "done" /\ ~cfg.dry_run) => Cardinality(Requests("get", p)) = 1

\* An unannex asks only for paths of the get just before it.
PromotedFromCurrentBatch ==
    \A i \in 1..Len(matLog) :
       matLog[i].cmd = "unannex" =>
         /\ i > 1 /\ matLog[i - 1].cmd = "get"
         /\ Range(matLog[i].paths) \subseteq Range(matLog[i - 1].paths)

\* C17: a candidate in Git at the start of the pass is in no get and no
\* unannex; an annexed candidate is in exactly one get, of at most ChunkN
\* paths; and an unannex holds only paths of the current batch whose fetch
\* was confirmed, none of them with a recorded fetch failure.  The code
\* promotes every path with a success record and present content, also one
\* that has a failure record in get_failures, so this does not hold of it.
C17_CandidateStateMachine ==
    /\ GitBackedNeverRequested /\ FetchedOnce /\ PromotedFromCurrentBatch
    /\ \A p \in Range(annexed) :
         Requests("unannex", p) # {} => p \notin DOMAIN report.get_failures

\* What the code does: the paths it is about to promote are paths of the
\* current batch that the get reported as fetched or that needed no
\* record, and whose content is present.
PromotedAreFetched ==
    /\ GitBackedNeverRequested /\ FetchedOnce /\ PromotedFromCurrentBatch
    /\ (AfterGet /\ pc = "mat_promote") =>
         \A p \in Range(to_unannex) :
            /\ p \in LastPaths /\ Exists(tree[p])
            /\ SaysOk(lastOut.recs[p]) \/ ~SaysFail(lastOut.recs[p])

\* A pass that is over, with a path in a get, in the unannex after it and in
\* get_failures.
PromotedAfterFailure ==
    /\ pc = "done"
    /\ \E p \in Range(annexed) :
         /\ Requests("unannex", p) # {} /\ p \in DOMAIN report.get_failures

\* ============================================ properties: batch ordering
GetsLogged == SelectSeq(matLog, LAMBDA e : e.cmd = "get")

\* C18: the commands of a pass run one after the other, batch by batch: the
\* k-th get is the get of the k-th batch, an unannex comes right after the
\* get of its own batch, and when the get of a later batch is about to run
\* the batch before it is over: its get was logged and, if it had paths to
\* promote, so was its unannex.
C18_BatchesSequential ==
    ~cfg.dry_run =>
      /\ PromotedFromCurrentBatch
      /\ \A k \in 1..Len(GetsLogged) :
           GetsLogged[k].paths = chunked(annexed, ChunkN)[k]
      /\ (pc = "mat_promote") =>
           /\ Len(GetsLogged) = batch /\ to_unannex # <<>>
           /\ matLog[Len(matLog)] = [cmd |-> "get", paths |-> chunked(annexed, ChunkN)[batch]]
      /\ (pc = "mat_fetch" /\ batch > 1) =>
           /\ Len(GetsLogged) = batch - 1
           /\ matLog[Len(matLog)] =
                 IF to_unannex # <<>>
                 THEN [cmd |-> "unannex", paths |-> to_unannex]
                 ELSE [cmd |-> "get", paths |-> chunked(annexed, ChunkN)[batch - 1]]

\* The second batch is about to be fetched after the first was fetched and
\* promoted.
C18_Witness ==
    /\ ~cfg.dry_run /\ pc = "mat_fetch" /\ batch = 2
    /\ Len(matLog) = 2 /\ matLog[2].cmd = "unannex"

\* ========================================== properties: duration extraction
\* The entries the step has added to the log of source commands.
NewSrcLog == SubSeq(srcLog', Len(srcLog) + 1, Len(srcLog'))

\* The step has resolved and written the sidecar of the current BOLD image.
BoldWritten ==
    /\ pc = "sidecar" /\ is_bold_nifti(CurFile.rel)
    /\ writeLog' = Append(writeLog, <<"sidecar", sidecar_json_path(DestOf(CurFile))>>)

\* The step has fetched the content of the current image.
ImageFetched == HasCmd(NewSrcLog, "get") /\
    \E i \in 1..Len(NewSrcLog) : NewSrcLog[i] = <<"get", CurFile.site, CurFile.rel>>

\* The templates and the per-file sidecar of the resolution just written,
\* merged.
MergedWritten ==
    merge_meta(resolutions'[1].coarse, resolutions'[1].finer, resolutions'[1].src)

ValidTr(meta) ==
    /\ "RepetitionTime" \in DOMAIN meta
    /\ meta["RepetitionTime"].num /\ meta["RepetitionTime"].v > 0

\* C19 (as stated): a resolution fetches the image only if extraction is
\* enabled and the merged metadata holds no valid positive duration,
\* whatever the overwrite flag.
C19_ImageFetchedOnlyIfNeeded ==
    [][ (BoldWritten /\ ImageFetched) => (ensure_tr /\ ~ValidTr(MergedWritten)) ]_vars

\* C19 (amended): without overwrite, the image is fetched only if extraction
\* is enabled and the merged metadata holds no valid positive duration;
\* with overwrite, it is fetched whenever extraction is enabled.
C19_ImageFetchedOnlyIfNeededOrOverwrite ==
    [][ BoldWritten =>
          /\ ImageFetched => ensure_tr
          /\ ~cfg.overwrite => (ImageFetched => ~ValidTr(MergedWritten))
          /\ cfg.overwrite => (ImageFetched <=> ensure_tr) ]_vars

\* Extraction is enabled, overwrite is off, and the BOLD sidecar was written
\* from metadata holding the duration of the template, without a fetch of
\* the image.
C19_Witness ==
    /\ ensure_tr /\ ~cfg.overwrite /\ ~cfg.dry_run
    /\ resolutions # <<>> /\ resolutions[1].path = BoldSidecarPath
    /\ ValidTr(merge_meta(resolutions[1].coarse, resolutions[1].finer,
                          resolutions[1].src))
    /\ writeLog # <<>> /\ writeLog[Len(writeLog)] = <<"sidecar", BoldSidecarPath>>
    /\ ~\E i \in 1..Len(srcLog) : srcLog[i] = <<"get", BoldImage.site, BoldImage.rel>>

\* The step has printed the warning of a failed extraction.
ExtractionFailed ==
    /\ pc = "sidecar" /\ is_bold_nifti(CurFile.rel)
    /\ \E i \in 1..Len(NewSrcLog) : NewSrcLog[i] = <<"warn", CurFile.site, CurFile.rel>>

Resolving == pc = "sidecar" /\ envIn # NoEnv

CurSidecarPath == sidecar_json_path(DestOf(CurFile))

SidecarWritten == writeLog' = Append(writeLog, <<"sidecar", CurSidecarPath>>)

\* C21: when the get, the read or the parse of a template or of the
\* per-file sidecar fails (failing command, invalid JSON, JSON that is not
\* an object), that source counts as an empty mapping, the sidecar written
\* is the merge of the three sources as loaded (apart from the derived
\* fields), and the build goes on with the next file (the destination
\* sidecar not being an annex link, through which no resolution can write).
C21_LoadFailureNotFatal ==
    [][ Resolving =>
          /\ ~IsSymlink(tree[CurSidecarPath]) => (pc' # "aborted" /\ AfterFile)
          /\ SidecarWritten =>
                /\ envIn.t1 # "object" => resolutions'[1].coarse = NoMeta
                /\ envIn.t2 # "object" => resolutions'[1].finer = NoMeta
                /\ envIn.src # "object" => resolutions'[1].src = NoMeta
                /\ \A k \in DOMAIN MergedWritten \ Derived :
                      /\ k \in DOMAIN resolutions'[1].meta
                      /\ resolutions'[1].meta[k] = MergedWritten[k] ]_vars

\* The template of the BOLD image was fetched and was not valid JSON; the
\* per-file sidecar loaded; the sidecar written holds the per-file fields
\* and the build has gone on.
C21_Witness ==
    /\ envIn # NoEnv /\ envIn.t1 = "invalid_json" /\ envIn.src = "object"
    /\ pc \notin {"sidecar", "aborted"}
    /\ resolutions # <<>> /\ resolutions[1].path = BoldSidecarPath
    /\ resolutions[1].coarse = NoMeta /\ resolutions[1].src # NoMeta
    /\ \E i \in 1..Len(srcLog) : srcLog[i][1] = "get" /\ srcLog[i][3] = TName(Rest, <<>>, "bold")
    /\ tree[BoldSidecarPath] = EFile(resolutions[1].meta)
    /\ \A k \in DOMAIN resolutions[1].src : k \in DOMAIN resolutions[1].meta

\* ============================================ properties: fetch and release
\* Every get of the log is followed by the drop of the same path, with at
\* most the warning of a failed extraction between them, and every drop
\* follows a get in that way.
Paired(log) ==
    \A i \in 1..Len(log) :
       /\ log[i][1] = "get" =>
             \/ i + 1 <= Len(log) /\ log[i + 1] = <<"drop", log[i][2], log[i][3]>>
             \/ /\ i + 2 <= Len(log)
                /\ log[i + 1] = <<"warn", log[i][2], log[i][3]>>
                /\ log[i + 2] = <<"drop", log[i][2], log[i][3]>>
       /\ log[i][1] = "drop" =>
             \/ i > 1 /\ log[i - 1] = <<"get", log[i][2], log[i][3]>>
             \/ /\ i > 2
                /\ log[i - 1] = <<"warn", log[i][2], log[i][3]>>
                /\ log[i - 2] = <<"get", log[i][2], log[i][3]>>

\* C22: in a run that is not a dry run, every get of a source path by a
\* resolution is followed by one drop of that path before the next get,
\* whatever the get and the read came to, and a failing drop does not abort
\* the file or the build.
C22_FetchReleasePaired ==
    [][ (Resolving /\ ~cfg.dry_run) =>
          /\ Paired(NewSrcLog)
          /\ ~IsSymlink(tree[CurSidecarPath]) => (pc' # "aborted" /\ AfterFile) ]_vars

\* A resolution in which the get of the image failed and the drops failed:
\* three paths were fetched and dropped, and the build has gone on.
C22_Witness ==
    /\ envIn # NoEnv /\ ~envIn.drops /\ ~envIn.img /\ ~cfg.dry_run
    /\ pc \notin {"sidecar", "aborted"}
    /\ Cardinality({ i \in 1..Len(srcLog) : srcLog[i][1] = "get" }) >= 3
    /\ Cardinality({ i \in 1..Len(srcLog) : srcLog[i][1] = "drop" }) >= 3
    /\ \E i \in 1..Len(srcLog) : srcLog[i][1] = "warn"

\* ============================================ properties: template cache
GetsOf(key) ==
    { i \in 1..Len(srcLog) : srcLog[i] = <<"get", key[1], key[2]>> }

\* C23: within a build a (site, template name) pair is fetched and dropped
\* at most once, also when the get or the read failed or the template does
\* not exist, and every later call for the pair returns what the first one
\* returned, whatever the callers did to the mappings they were given.
C23_TemplateLoadedOnce ==
    /\ Paired(srcLog)
    /\ \A key \in CacheKeys :
         /\ Cardinality(GetsOf(key)) <= 1
         /\ ~TemplateTracked(key[1], key[2]) => GetsOf(key) = {}
    /\ \A i, j \in 1..Len(held) :
         held[i].key = held[j].key => held[i].got = held[j].got

\* A template whose first load failed was asked for again after the first
\* caller changed its mapping: one get, and the same empty mapping.
C23_Witness ==
    /\ Len(held) >= 2
    /\ \E i, j \in 1..Len(held) :
         /\ i < j /\ held[i].key = held[j].key
         /\ TemplateTracked(held[i].key[1], held[i].key[2])
         /\ held[i].got = NoMeta /\ held[j].got = NoMeta
         /\ held[i].meta # held[i].got
         /\ Cardinality(GetsOf(held[i].key)) = 1

\* ============================================= properties: header reader
\* The factor of the time unit in bits 3-5 of the unit byte, in 1e-7 s per
\* tenth of a unit.
FactorOfBits(u) ==
    LET code == (u \div 8) % 8
    IN  IF code = 2 THEN 1000 ELSE IF code = 3 THEN 1 ELSE 1000000

\* The classification of a header of n bytes holding sizeof_hdr sz, the
\* float bits and the unit byte u, a value that is not strictly positive
\* (NaN is not) being an InvalidDuration.
Classified(n, sz, bits, u) ==
    IF n < 348 THEN Reading(FALSE, "ShortHeader", 0, FALSE)
    ELSE IF sz # 348 THEN Reading(FALSE, "NotRecognizedHeader", 0, FALSE)
    ELSE IF bits # NaNBits /\ FloatTenths(bits) * FactorOfBits(u) > 0
    THEN Reading(TRUE, "", FloatTenths(bits) * FactorOfBits(u), FALSE)
    ELSE Reading(FALSE, "InvalidDuration", 0, FALSE)

\* The same, a NaN being returned.
ClassifiedNaNReturned(n, sz, bits, u) ==
    IF n >= 348 /\ sz = 348 /\ bits = NaNBits THEN Reading(TRUE, "", 0, TRUE)
    ELSE Classified(n, sz, bits, u)

HeaderRead == pc = "header" /\ hdrOut # NoReading

\* C24: the reading of a file is ShortHeader when fewer than 348 bytes are
\* there, else NotRecognizedHeader when sizeof_hdr is 348 in neither byte
\* order, else the raw duration times the factor of the unit bits when that
\* is strictly positive and InvalidDuration when it is not; the byte order
\* the header was written in makes no difference.  The code returns a NaN
\* duration (NaN <= 0 is false), so this does not hold of it.
C24_HeaderClassified ==
    HeaderRead =>
      \A en \in {"<", ">"}, sz \in {348, 540, 0}, bits \in FloatBits,
         u \in UnitBytes, n \in {0, 347, 348} :
         hdrIn = [EncodeHeader(en, sz, bits, u) EXCEPT !.nbytes = n]
           => hdrOut = Classified(n, sz, bits, u)

\* What the code does: the same classification, but for NaN.
HeaderClassifiedButNaN ==
    HeaderRead =>
      \A en \in {"<", ">"}, sz \in {348, 540, 0}, bits \in FloatBits,
         u \in UnitBytes, n \in {0, 347, 348} :
         hdrIn = [EncodeHeader(en, sz, bits, u) EXCEPT !.nbytes = n]
           => hdrOut = ClassifiedNaNReturned(n, sz, bits, u)

\* A big-endian header of 200 ms was read as 0.2 s.
BigEndianRead ==
    /\ HeaderRead
    /\ hdrIn = EncodeHeader(">", 348, <<67, 72, 0, 0>>, 18)
    /\ hdrOut = Reading(TRUE, "", 2000000, FALSE)

\* =============================================== properties: interrupted runs
\* Every URL the source store knows for f is registered for its key in the
\* destination store.
UrlsRegistered(f) ==
    \A u \in Range(Uniq(SrcWhereisUrls(f.site, f.rel))) :
       <<SrcKey(f.site, f.rel), u>> \in registered

\* C25: when a run that is not a dry run has completed, whatever runs came
\* before it and wherever they were aborted, every destination that is a
\* link to the key of its source file has all the URLs of that file
\* registered.  A rerun skips a link whose registration was interrupted
\* (line 574), so this does not hold of the code.
C25_LinksRegisteredAfterRecovery ==
    (pc = "done" /\ ~cfg.dry_run) =>
      \A f \in SrcFiles :
         (IsSymlink(tree[DestOf(f)]) /\ tree[DestOf(f)].key = SrcKey(f.site, f.rel))
           => UrlsRegistered(f)

\* A completed run that created nothing and skipped a link whose URLs are
\* not all registered.
SkippedUnregisteredLink ==
    /\ pc = "done" /\ ~cfg.dry_run /\ created_files = 0 /\ skipped_files > 0
    /\ \E f \in SrcFiles : IsSymlink(tree[DestOf(f)]) /\ ~UrlsRegistered(f)

\* ======================================= properties: pre-existing destinations
\* The source files that are linked in every sidecar mode.
NonSidecar(f) == ~is_bold_json(f.rel) /\ ~is_t1w_json(f.rel)

CarriesSourceKey(f) ==
    IsSymlink(tree[DestOf(f)]) /\ tree[DestOf(f)].key = SrcKey(f.site, f.rel)

C27_PathMappingInjective ==
    pc = "files" =>
      /\ \A i, j \in 1..Len(held) : i # j => held[i].dest # held[j].dest
      /\ \A i \in 1..Len(held) : ~held[i].taken

HasSes1(rel) == \E i \in 1..Len(rel.parts) : rel.parts[i] = Part("ses", <<"1">>)

\* What holds of the code: two files of a subject share a destination only
\* in abide1, one of them named sub-<id>_... without a ses- part and the
\* other the same name with _ses-1 after sub-<id>.
InjectiveButForSes1 ==
    pc = "files" =>
      \A i, j \in 1..Len(held) :
         (i # j /\ held[i].dest = held[j].dest) =>
            /\ subjA.tag = V1
            /\ held[i].rel.segs = held[j].rel.segs
            /\ HasSes1(held[i].rel) # HasSes1(held[j].rel)

\* func/sub-51_task-rest_bold.nii.gz and func/sub-51_ses-1_task-rest_bold.nii.gz
\* of an abide1 subject have been given one destination.
Ses1Collision ==
    /\ pc = "files" /\ subjA.tag = V1 /\ Len(held) = 2
    /\ held[1].rel = Rel(<<"func">>, <<Part("sub", subjA.orig_id), Part("task", Rest)>>,
                         "bold", ".nii.gz")
    /\ held[2].rel = Rel(<<"func">>, <<Part("sub", subjA.orig_id), Part("ses", <<"1">>),
                                       Part("task", Rest)>>, "bold", ".nii.gz")
    /\ held[2].taken

\* ========================================== properties: the duration written
\* C28: every sidecar in the destination tree that holds RepetitionTime
\* holds a strictly positive number, whatever the templates, the per-file
\* sidecar and the image header held and whatever the overwrite flag.  A
\* header value below the rounding step is written as 0.0 and a NaN is
\* written as NaN, so this does not hold of the code.
C28_WrittenDurationPositive ==
    \A p \in DOMAIN tree :
       (tree[p].t = "file" /\ "RepetitionTime" \in DOMAIN tree[p].meta) =>
          /\ ValidTr(tree[p].meta)
          /\ tree[p].meta["RepetitionTime"] # NaN

\* What holds of the code: a written duration is a positive number, the
\* rounded header value 0.0, or NaN.
WrittenDurationPositiveZeroOrNaN ==
    \A p \in DOMAIN tree :
       (tree[p].t = "file" /\ "RepetitionTime" \in DOMAIN tree[p].meta) =>
          \/ ValidTr(tree[p].meta) /\ tree[p].meta["RepetitionTime"] # NaN
          \/ tree[p].meta["RepetitionTime"] = Num(0)
          \/ tree[p].meta["RepetitionTime"] = NaN

\* A header of 0.3 microseconds was read and RepetitionTime 0.0 written.
RoundedToZeroWritten ==
    /\ envIn # NoEnv /\ envIn.hdr = "tiny" /\ pc \notin {"sidecar", "aborted"}
    /\ tree[BoldSidecarPath].t = "file"
    /\ "RepetitionTime" \in DOMAIN tree[BoldSidecarPath].meta
    /\ tree[BoldSidecarPath].meta["RepetitionTime"] = Num(0)

\* =========================================== properties: report accounting
\* In how many of the four outcome lists of a report a path appears.
ListedIn(rep, p) ==
    (IF p \in Range(rep.converted_to_git) THEN 1 ELSE 0)
    + (IF p \in Range(rep.too_large_keep_annexed) THEN 1 ELSE 0)
    + (IF p \in DOMAIN rep.get_failures THEN 1 ELSE 0)
    + (IF p \in DOMAIN rep.unannex_failures THEN 1 ELSE 0)

ListedPaths(rep) ==
    Range(rep.converted_to_git) \cup Range(rep.too_large_keep_annexed)
      \cup DOMAIN rep.get_failures \cup DOMAIN rep.unannex_failures

PassReported == pc = "done" /\ cfg.materialize /\ ~cfg.dry_run /\ reportFile.written

\* C29: in the report of a pass that is not a dry run, every candidate
\* that was annexed at the start is in exactly one of converted_to_git,
\* too_large_keep_annexed, get_failures and unannex_failures, every path
\* listed is such a candidate, and total_candidates is already_in_git plus
\* annexed_candidates, whatever records the commands print.
C29_ReportAccounting ==
    PassReported =>
      /\ \A p \in Range(annexed) : ListedIn(reportFile.content, p) = 1
      /\ ListedPaths(reportFile.content) \subseteq Range(annexed)
      /\ reportFile.content.total_candidates =
            reportFile.content.already_in_git + reportFile.content.annexed_candidates

\* What holds of the code: every such candidate is listed at least once,
\* and the other two parts.
ReportAccountsAtLeastOnce ==
    PassReported =>
      /\ \A p \in Range(annexed) : ListedIn(reportFile.content, p) >= 1
      /\ ListedPaths(reportFile.content) \subseteq Range(annexed)
      /\ reportFile.content.total_candidates =
            reportFile.content.already_in_git + reportFile.content.annexed_candidates
      /\ reportFile.content.total_candidates = Len(candidates)
      /\ reportFile.content.annexed_candidates = Len(annexed)

\* A report that lists a path as a fetch failure and as converted.
ListedTwice ==
    /\ PassReported
    /\ \E p \in Range(annexed) :
         p \in DOMAIN reportFile.content.get_failures
           /\ p \in Range(reportFile.content.converted_to_git)

\* ========================================== properties: manifest and tree
\* The subject directories of the destination tree: those that hold an
\* entry.
SubjectDirs == { p.top : p \in { q \in DOMAIN tree : LExists(tree[q]) } }

RowIds == { manifest.rows[i].participant_id : i \in 1..Len(manifest.rows) }

RowsWithId(id) == { i \in 1..Len(manifest.rows) : manifest.rows[i].participant_id = id }

\* C30: after any sequence of builds that write and do not clean, of both
\* datasets or of one, every subject directory of the destination tree has
\* exactly one row in participants.tsv and every row has a subject
\* directory.
C30_ManifestMatchesTree ==
    (pc = "done" /\ manifest.written) =>
      /\ \A id \in SubjectDirs : Cardinality(RowsWithId(id)) = 1
      /\ RowIds \subseteq SubjectDirs

\* What holds of the code: the rows are the subjects of the datasets the
\* last completed build selected, one row each, whatever the tree holds.
RowsAreLastSelection ==
    (pc = "done" /\ manifest.written) =>
      /\ RowIds = UNION { { MappingRow(ds, Subjects(ds)[j].site,
                                       Subjects(ds)[j].orig).participant_id :
                              j \in 1..Len(Subjects(ds)) } : ds \in cfg.datasets }
      /\ \A id \in RowIds : Cardinality(RowsWithId(id)) = 1

\* A build of abide2 alone has completed after the subjects of abide1 were
\* linked: their directories are in the tree and have no row.
SubsetRunDroppedRows ==
    /\ pc = "done" /\ manifest.written /\ cfg.datasets = {"abide2"}
    /\ \E id \in SubjectDirs : RowsWithId(id) = {}
    /\ RowIds # {}

====
